---- MODULE Spec2Model ----
(***************************************************************************)
(* State-machine model of swift-quant:                                     *)
(*   - calculate_overlap_percentage.py: the annotation loaders, the sorted *)
(*     interval scan check_overlap and the read-counting loop;             *)
(*   - dash_analysis/dash_analyzer.py: get_coverage, the depletion         *)
(*     efficiency, the uniformity, the per-target metrics and the loop     *)
(*     over several targets;                                               *)
(*   - dash_analysis/dash_statistics.py: Cohen's d, compare_groups,        *)
(*     correlation_analysis, generate_summary_statistics, rank_grnas and   *)
(*     identify_outliers;                                                  *)
(*   - dash_analysis/dash_analyzer.py and dash_cli.py: the alignment       *)
(*     handles of the `with DASHAnalyzer(...)` blocks;                     *)
(*   - dash_analysis/dash_design_helper.py: analyze_grna_performance and   *)
(*     generate_report.                                                    *)
(* Floating-point values are modelled exactly: a finite value is a         *)
(* rational [num, den] with den > 0, and the IEEE value NaN (the mean of   *)
(* an empty array, 0.0 / 0.0) is [num |-> 0, den |-> 0].                   *)
(***************************************************************************)
EXTENDS Integers, Sequences, FiniteSets, TLC

VARIABLES
    pc,                   \* position of the modelled program
    annotations,          \* dict chrom -> list of <<start, end, name>>
    loaded,               \* history: the index as the loader returned it
    query,                \* the last check_overlap call <<chrom, read_start, read_end>>
    overlap,              \* what that call returned
    out_of_order,         \* history: some query started before its predecessor
    min_mapq,             \* calculate_overlap_percentage's parameters
    require_proper_pair,
    read,                 \* the loop variable of `for read in bam.fetch()`
    total_reads,
    overlapping_reads,
    passing,              \* history: fetched reads that pass the filters
    passing_overlap,      \* history: those that overlap their chromosome's annotations
    result,               \* the value a finished call returned
    region,               \* get_coverage's arguments <<start, end>>
    coverage,             \* get_coverage's array; element i is coverage[i + 1]
    column,               \* the last pileup column <<pos, n>>
    reported,             \* history: every pileup column reported so far
    bam_reads,            \* the alignment records of the BAM file behind self.bam
    control_reads,        \* those of the BAM file behind self.control_bam
    control_bam,          \* whether the analyzer holds a control BAM handle
    target,               \* the GRNATarget under analysis
    treated_cov,          \* the treated coverage array
    control_cov,          \* the control coverage array, or None
    efficiency,           \* what calculate_depletion_efficiency returned
    uniformity,           \* what calculate_uniformity returned
    metrics,              \* the DepletionMetrics analyze_grna_target returned
    targets,              \* analyze_multiple_targets' argument
    results,              \* its list of results
    workers,              \* the locals of each caller's analyze_grna_target call
    sample1,              \* calculate_cohens_d's arguments
    sample2,
    cohens_d,             \* what it returned
    group1,               \* compare_groups' arguments
    group2,
    alpha,
    comparison,           \* its list of ComparisonResults
    metrics_list,         \* the argument of correlation_analysis / generate_summary_statistics
    stat_result,          \* what that call returned
    weights,              \* rank_grnas' weights argument; given is FALSE for None
    ranking,              \* the frame rank_grnas returned
    n_std,                \* identify_outliers' threshold
    outliers,             \* the dict identify_outliers returned
    reordered,            \* the metrics in the order of a ranking, handed to rank_grnas again
    reranking,            \* the frame that second call returned
    cli_args,             \* compare_command's arguments and the files that cannot be opened
    handles,              \* every pysam.AlignmentFile handle: its state and its close() calls
    analyzer,             \* the DASHAnalyzer of the current `with` block: self.bam, self.control_bam
    raised,               \* the exception in flight, "" for none
    original,             \* history: the metrics list as the caller first held it
    calls,                \* history: the statistics calls made on it so far
    performance,          \* analyze_grna_performance's argument
    recommendations,      \* the list it returned
    report,               \* generate_report's counts and its sorted recommendations
    file_lines            \* history: the format and the lines of the annotation file read

overlapVars == <<annotations, loaded, query, overlap, out_of_order>>
countVars == <<min_mapq, require_proper_pair, read, total_reads, overlapping_reads,
               passing, passing_overlap, result>>
coverageVars == <<region, coverage, column, reported, bam_reads, control_reads>>
metricsVars == <<control_bam, target, treated_cov, control_cov, efficiency, uniformity, metrics>>
batchVars == <<targets, results, workers>>
statVars == <<sample1, sample2, cohens_d, group1, group2, alpha, comparison, metrics_list, stat_result>>
rankVars == <<weights, ranking, n_std, outliers, reordered, reranking>>
handleVars == <<cli_args, handles, analyzer, raised>>
sessionVars == <<original, calls>>
helperVars == <<performance, recommendations, report>>
loaderVars == <<file_lines>>
toolVars == <<rankVars, handleVars, sessionVars, helperVars, loaderVars>>
vars == <<pc, overlapVars, countVars, coverageVars, metricsVars, batchVars, statVars, toolVars>>

\* what the steps of one part of the program leave alone
outsideOverlap == <<countVars, coverageVars, metricsVars, batchVars, statVars, toolVars>>
outsideCount == <<coverageVars, metricsVars, batchVars, statVars, toolVars>>
outsideCoverage == <<overlapVars, countVars, metricsVars, batchVars, statVars, toolVars>>
outsideMetrics == <<overlapVars, countVars, coverageVars, batchVars, statVars, toolVars>>
outsideBatch == <<overlapVars, countVars, statVars, toolVars>>
outsideStats == <<overlapVars, countVars, coverageVars, metricsVars, batchVars, toolVars>>

----------------------------------------------------------------------------
(* Bounds *)

MaxPos == 3      \* annotation and query coordinates range over 0..MaxPos
MaxAnn == 2      \* lines of an annotation file
MaxMapq == 1     \* mapping qualities and min_mapq range over 0..MaxMapq
MaxReads == 2    \* reads counted in total_reads before the fetch ends
MaxRef == 3      \* pileup positions and region bounds range over 0..MaxRef
MaxDepth == 2    \* depths range over 0..MaxDepth
MaxBam == 2      \* alignment records of the BAM file behind a pileup
ReadLen == 2     \* reference positions an alignment record covers
MaxLen == 3      \* length of a coverage array handed to the metrics
MaxTargets == 2  \* targets handed to analyze_multiple_targets
MaxWorkers == 2  \* callers analysing targets on one analyzer
MaxSample == 3   \* values of an array handed to calculate_cohens_d
MaxGroup == 2    \* metrics of a group or of a list
MaxRank == 2     \* metrics handed to rank_grnas or identify_outliers
MaxCalls == 2    \* statistics calls a caller makes on one metrics list

Coords == 0 .. MaxPos
Chroms == {"chr1", "chr2"}
Names == <<"geneA", "geneB", "geneC">>     \* in Python's string order

None == "None"

----------------------------------------------------------------------------
(* Exact arithmetic on Python floats *)

Rat(n, d) == [num |-> n, den |-> d]

\* den = 0 holds the values that are no numbers: 0/0 is NaN, k/0 is +inf or
\* -inf by the sign of k (numpy's float64 division by zero)
NaN == Rat(0, 0)

IsNaN(x) == x.num = 0 /\ x.den = 0

IsInf(x) == x.num # 0 /\ x.den = 0

Sign(k) == IF k > 0 THEN 1 ELSE IF k < 0 THEN -1 ELSE 0

\* Python comparisons: every comparison with NaN is False
FloatLt(x, y) ==
    IF IsNaN(x) \/ IsNaN(y) THEN FALSE
    ELSE IF IsInf(x) /\ IsInf(y) THEN x.num < 0 /\ y.num > 0
    ELSE x.num * y.den < y.num * x.den

FloatEq(x, y) ==
    IF IsNaN(x) \/ IsNaN(y) THEN FALSE
    ELSE IF IsInf(x) \/ IsInf(y) THEN IsInf(x) /\ IsInf(y) /\ Sign(x.num) = Sign(y.num)
    ELSE x.num * y.den = y.num * x.den

FloatLe(x, y) == FloatLt(x, y) \/ FloatEq(x, y)

FloatSub(x, y) ==
    IF IsNaN(x) \/ IsNaN(y) THEN NaN
    ELSE IF IsInf(x) /\ IsInf(y) THEN (IF Sign(x.num) = Sign(y.num) THEN NaN ELSE Rat(Sign(x.num), 0))
    ELSE IF IsInf(x) THEN Rat(Sign(x.num), 0)
    ELSE IF IsInf(y) THEN Rat(-Sign(y.num), 0)
    ELSE Rat(x.num * y.den - y.num * x.den, x.den * y.den)

FloatDiv(x, y) ==
    IF IsNaN(x) \/ IsNaN(y) THEN NaN
    ELSE IF IsInf(y) THEN (IF IsInf(x) THEN NaN ELSE Rat(0, 1))
    ELSE IF y.num = 0 THEN Rat(Sign(x.num), 0)
    ELSE IF IsInf(x) THEN Rat(Sign(x.num) * Sign(y.num), 0)
    ELSE Rat(x.num * y.den * Sign(y.num), x.den * y.num * Sign(y.num))

\* the builtins min(a, b) and max(a, b): the second argument replaces the
\* first only when the comparison with it is True
PyMin(a, b) == IF FloatLt(b, a) THEN b ELSE a

PyMax(a, b) == IF FloatLt(a, b) THEN b ELSE a

----------------------------------------------------------------------------
(* calculate_overlap_percentage.py: the annotation index *)

EmptyDict == [c \in {} |-> <<>>]

\* annotations[chrom] on a defaultdict(list): a missing key is inserted with []
DefaultDictGet(d, chrom) == IF chrom \in DOMAIN d THEN d ELSE [c \in DOMAIN d \cup {chrom} |-> IF c = chrom THEN <<>> ELSE d[c]]

\* annotations[chrom].append((start, end, name))
AppendAnnotation(d, line) ==
    LET chrom == line[1]
        dd == DefaultDictGet(d, chrom)
    IN  [dd EXCEPT ![chrom] = Append(@, <<line[2], line[3], line[4]>>)]

NameRank(n) == CHOOSE i \in 1 .. Len(Names) : Names[i] = n

\* Python's tuple order on (start, end, name)
TupleLess(a, b) ==
    \/ a[1] < b[1]
    \/ a[1] = b[1] /\ a[2] < b[2]
    \/ a[1] = b[1] /\ a[2] = b[2] /\ NameRank(a[3]) < NameRank(b[3])

RECURSIVE InsertSorted(_, _)
\* x goes after every element that is not greater than it (a stable insertion)
InsertSorted(x, s) ==
    IF s = <<>> THEN <<x>>
    ELSE IF TupleLess(x, Head(s)) THEN <<x>> \o s
    ELSE <<Head(s)>> \o InsertSorted(x, Tail(s))

RECURSIVE ListSort(_)
\* list.sort(): stable, ascending in the tuple order
ListSort(s) == IF s = <<>> THEN <<>> ELSE InsertSorted(s[Len(s)], ListSort(SubSeq(s, 1, Len(s) - 1)))

RECURSIVE AppendAll(_, _)
AppendAll(d, lines) == IF lines = <<>> THEN d ELSE AppendAll(AppendAnnotation(d, Head(lines)), Tail(lines))

\* load_annotations_from_bed: every line <<chrom, start, end, name>> is appended
\* to its chromosome's list, then every list is sorted
LoadAnnotationsFromBed(lines) ==
    LET appended == AppendAll(EmptyDict, lines)
    IN  [c \in DOMAIN appended |-> ListSort(appended[c])]

----------------------------------------------------------------------------
(* check_overlap *)

\* the overlap test with a shifted comparison (closed instead of half-open)
OverlapTestClosed(read_start, read_end, ann_start, ann_end) == read_start <= ann_end /\ read_end > ann_start

\* line 125: read_start < ann_end and read_end > ann_start
OverlapTest(read_start, read_end, ann_start, ann_end) == read_start < ann_end /\ read_end > ann_start

\* the early exit taken on the read's start instead of its end
EarlyExitOnStart(ann_start, read_start, read_end) == ann_start > read_start

\* line 121: if ann_start > read_end: break
EarlyExit(ann_start, read_start, read_end) == ann_start > read_end

RECURSIVE ScanFrom(_, _, _, _)
\* the for loop of check_overlap from the i-th tuple on
ScanFrom(i, read_start, read_end, anns) ==
    IF i > Len(anns) THEN FALSE
    ELSE IF EarlyExit(anns[i][1], read_start, read_end) THEN FALSE
    ELSE IF OverlapTest(read_start, read_end, anns[i][1], anns[i][2]) THEN TRUE
    ELSE ScanFrom(i + 1, read_start, read_end, anns)

CheckOverlap(read_start, read_end, anns) == ScanFrom(1, read_start, read_end, anns)

----------------------------------------------------------------------------
(* Values a variable holds while the modelled program does not use it *)

NoQuery == <<None, 0, 0>>
NoRead ==
    [reference_name |-> None, reference_start |-> 0, reference_end |-> 0,
     mapping_quality |-> 0, is_unmapped |-> FALSE, is_secondary |-> FALSE,
     is_supplementary |-> FALSE, is_proper_pair |-> FALSE]
NoResult == None
NoColumn == <<-1, 0>>
NoTarget == [name |-> None, chrom |-> None, start |-> 0, end |-> 0]
NoneArray == [is_none |-> TRUE, array |-> <<>>]
NoMetrics == None
NoUniformity == [zero |-> TRUE, cv2 |-> [num |-> 0, den |-> 1]]

IdleOverlap ==
    /\ annotations = EmptyDict
    /\ loaded = EmptyDict
    /\ query = NoQuery
    /\ overlap = FALSE
    /\ out_of_order = FALSE

IdleCount ==
    /\ min_mapq = 0
    /\ require_proper_pair = FALSE
    /\ read = NoRead
    /\ total_reads = 0
    /\ overlapping_reads = 0
    /\ passing = 0
    /\ passing_overlap = 0
    /\ result = NoResult

IdleCoverage ==
    /\ region = <<0, 0>>
    /\ coverage = <<>>
    /\ column = NoColumn
    /\ reported = {}
    /\ bam_reads = <<>>
    /\ control_reads = <<>>

IdleBatch ==
    /\ targets = <<>>
    /\ results = <<>>
    /\ workers = <<>>

IdleStats ==
    /\ sample1 = <<>>
    /\ sample2 = <<>>
    /\ cohens_d = None
    /\ group1 = <<>>
    /\ group2 = <<>>
    /\ alpha = None
    /\ comparison = <<>>
    /\ metrics_list = <<>>
    /\ stat_result = None

NoWeights ==
    [given |-> FALSE, depletion |-> Rat(0, 1), uniformity |-> Rat(0, 1),
     zero_coverage |-> Rat(0, 1), cv |-> Rat(0, 1)]

IdleRank ==
    /\ weights = NoWeights
    /\ ranking = None
    /\ n_std = None
    /\ outliers = None
    /\ reordered = <<>>
    /\ reranking = None

NoAnalyzer == [block |-> 0, bam |-> None, control_bam |-> None]

IdleHandles ==
    /\ cli_args = None
    /\ handles = <<>>
    /\ analyzer = NoAnalyzer
    /\ raised = ""

IdleSession ==
    /\ original = <<>>
    /\ calls = <<>>

IdleHelper ==
    /\ performance = None
    /\ recommendations = <<>>
    /\ report = None

NoFile == [format |-> None, lines |-> <<>>]

IdleLoader == file_lines = NoFile

IdleTools == IdleRank /\ IdleHandles /\ IdleSession /\ IdleHelper /\ IdleLoader

IdleMetrics ==
    /\ control_bam = FALSE
    /\ target = NoTarget
    /\ treated_cov = <<>>
    /\ control_cov = NoneArray
    /\ efficiency = Rat(0, 1)
    /\ uniformity = NoUniformity
    /\ metrics = NoMetrics

----------------------------------------------------------------------------
(* SpecOverlap: load one BED file, then query its index in any order *)

\* the lines of a BED file: <<chrom, start, end, name>>
BedLine == {"chr1"} \X Coords \X Coords \X {"geneA"}

BedFiles == UNION {[1 .. n -> BedLine] : n \in 0 .. MaxAnn}

InitOverlap ==
    /\ pc = "start"
    /\ IdleOverlap
    /\ IdleCount
    /\ IdleStats
    /\ IdleTools
    /\ IdleCoverage
    /\ IdleBatch
    /\ IdleMetrics

\* annotations = load_annotations_from_bed(bed_file)
Load ==
    /\ pc = "start"
    /\ \E lines \in BedFiles :
          /\ annotations' = LoadAnnotationsFromBed(lines)
          /\ loaded' = LoadAnnotationsFromBed(lines)
    /\ pc' = "loaded"
    /\ UNCHANGED <<query, overlap, out_of_order, outsideOverlap>>

RECURSIVE DropPassed(_, _)
DropPassed(anns, read_start) ==
    IF anns # <<>> /\ anns[1][2] <= read_start THEN DropPassed(Tail(anns), read_start) ELSE anns

\* a sweep that discards the intervals ending before the query, as a scan
\* that expects its queries in non-decreasing start order would
QuerySweep(chrom, read_start, read_end) ==
    /\ pc \in {"loaded", "queried"}
    /\ chrom \in DOMAIN annotations
    /\ query' = <<chrom, read_start, read_end>>
    /\ annotations' = [annotations EXCEPT ![chrom] = DropPassed(@, read_start)]
    /\ overlap' = CheckOverlap(read_start, read_end, annotations'[chrom])
    /\ out_of_order' = (out_of_order \/ (pc = "queried" /\ read_start < query[2]))
    /\ pc' = "queried"
    /\ UNCHANGED <<loaded, outsideOverlap>>

\* check_overlap(read_start, read_end, annotations[chrom]) for a chromosome of the index
Query(chrom, read_start, read_end) ==
    /\ pc \in {"loaded", "queried"}
    /\ chrom \in DOMAIN annotations
    /\ query' = <<chrom, read_start, read_end>>
    /\ overlap' = CheckOverlap(read_start, read_end, annotations[chrom])
    /\ out_of_order' = (out_of_order \/ (pc = "queried" /\ read_start < query[2]))
    /\ pc' = "queried"
    /\ UNCHANGED <<annotations, loaded, outsideOverlap>>

NextOverlap ==
    \/ Load
    \/ \E chrom \in Chroms, read_start \in Coords, read_end \in Coords : Query(chrom, read_start, read_end)

SpecOverlap == InitOverlap /\ [][NextOverlap]_vars

\* the half-open intervals of a list that the query meets, as a set of indexes
Meets(read_start, read_end, anns) == {i \in 1 .. Len(anns) : read_start < anns[i][2] /\ read_end > anns[i][1]}

SortedByStart(anns) == \A i, j \in 1 .. Len(anns) : i < j => anns[i][1] <= anns[j][1]

ExampleList == LoadAnnotationsFromBed(<< <<"chr1", 300, 400, "geneB">>, <<"chr1", 100, 200, "geneA">> >>)["chr1"]

\* C1: on a list sorted by start, check_overlap is true exactly when some
\* interval of the list satisfies read_start < ann_end and read_end > ann_start
\* (the early exit skips no overlapping interval); on {(100,200),(300,400)} the
\* queries (150,160), (250,260), (199,205) give true, false, true.
C1_CheckOverlapExact ==
    /\ (pc = "queried" /\ SortedByStart(annotations[query[1]]))
          => (overlap <=> Meets(query[2], query[3], annotations[query[1]]) # {})
    /\ ExampleList = << <<100, 200, "geneA">>, <<300, 400, "geneB">> >>
    /\ CheckOverlap(150, 160, ExampleList) = TRUE
    /\ CheckOverlap(250, 260, ExampleList) = FALSE
    /\ CheckOverlap(199, 205, ExampleList) = TRUE

\* the scan passed a first interval that the query does not meet and left at
\* the second, which starts after the query's end
C1_Witness ==
    /\ pc = "queried"
    /\ SortedByStart(annotations[query[1]])
    /\ Len(annotations[query[1]]) = 2
    /\ annotations[query[1]][1][1] <= query[3]
    /\ annotations[query[1]][2][1] > query[3]
    /\ query[2] < query[3]
    /\ overlap = FALSE

\* C5: the half-open overlap test is symmetric in its two intervals, also for
\* empty and inverted ones, and an interval with end > start overlaps itself.
C5_OverlapSymmetricReflexive ==
    pc = "queried" =>
        LET anns == annotations[query[1]]
            read_start == query[2]
            read_end == query[3]
        IN  /\ \A i \in 1 .. Len(anns) :
                  /\ OverlapTest(read_start, read_end, anns[i][1], anns[i][2])
                       = OverlapTest(anns[i][1], anns[i][2], read_start, read_end)
                  /\ CheckOverlap(read_start, read_end, <<anns[i]>>)
                       = CheckOverlap(anns[i][1], anns[i][2], << <<read_start, read_end, anns[i][3]>> >>)
            /\ (Len(anns) = 1 /\ anns[1][1] = read_start /\ anns[1][2] = read_end /\ read_end > read_start)
                  => overlap = TRUE

\* an interval of positive length was queried against itself
C5_Witness ==
    /\ pc = "queried"
    /\ Len(annotations[query[1]]) = 1
    /\ annotations[query[1]][1][1] = query[2]
    /\ annotations[query[1]][1][2] = query[3]
    /\ query[3] > query[2]
    /\ overlap = TRUE

\* C6: whatever queries came before and in whatever order, a query returns what
\* it returns as the only query on the loaded list, and the list is unchanged.
C6_QueryOrderIndependent ==
    pc = "queried" =>
        /\ annotations = loaded
        /\ overlap = CheckOverlap(query[2], query[3], loaded[query[1]])

\* a query that started before its predecessor found an overlap with the
\* first interval of a list of two
C6_Witness ==
    /\ pc = "queried"
    /\ out_of_order
    /\ Len(loaded[query[1]]) = 2
    /\ overlap = TRUE
    /\ OverlapTest(query[2], query[3], loaded[query[1]][1][1], loaded[query[1]][1][2])

----------------------------------------------------------------------------
(* SpecCount: calculate_overlap_percentage over the reads a BAM file yields *)

\* the intervals of the reads of the modelled BAM files
ReadIntervals == {<<150, 160>>, <<700, 710>>}

\* what pysam exposes of an aligned segment
Reads ==
    {[reference_name |-> c, reference_start |-> iv[1], reference_end |-> iv[2],
      mapping_quality |-> q, is_unmapped |-> u, is_secondary |-> s2,
      is_supplementary |-> s3, is_proper_pair |-> pp] :
        c \in Chroms, iv \in ReadIntervals, q \in 0 .. MaxMapq,
        u \in BOOLEAN, s2 \in BOOLEAN, s3 \in BOOLEAN, pp \in BOOLEAN}

\* the annotation files of the modelled runs, lines in file order
BedChr1 == << <<"chr1", 500, 600, "geneB">>, <<"chr1", 100, 200, "geneA">> >>

BedChr2 == << <<"chr2", 150, 300, "geneC">> >>

ExampleBeds == {<<>>, BedChr1, BedChr2, BedChr1 \o BedChr2}

\* the percentage as a ratio, without the factor 100
PercentageAsFraction(overlapping, total) == IF total > 0 THEN Rat(overlapping, total) ELSE Rat(0, 1)

\* line 177: (overlapping_reads / total_reads * 100) if total_reads > 0 else 0
Percentage(overlapping, total) == IF total > 0 THEN Rat(overlapping * 100, total) ELSE Rat(0, 1)

\* the loop body without the supplementary flag in its first filter
LoopBodyKeepSupplementary(r, st, mq, rpp) ==
    IF r.is_unmapped \/ r.is_secondary THEN st
    ELSE IF r.mapping_quality < mq THEN st
    ELSE IF rpp /\ ~r.is_proper_pair THEN st
    ELSE LET chrom == r.reference_name
             hit == chrom \in DOMAIN st.annotations
                      /\ CheckOverlap(r.reference_start, r.reference_end, st.annotations[chrom])
         IN  [st EXCEPT !.total_reads = @ + 1,
                        !.overlapping_reads = IF hit THEN @ + 1 ELSE @]

\* the loop body indexing the defaultdict without the membership test
LoopBodyNoMembership(r, st, mq, rpp) ==
    IF r.is_unmapped \/ r.is_secondary \/ r.is_supplementary THEN st
    ELSE IF r.mapping_quality < mq THEN st
    ELSE IF rpp /\ ~r.is_proper_pair THEN st
    ELSE LET chrom == r.reference_name
             dd == DefaultDictGet(st.annotations, chrom)
             hit == CheckOverlap(r.reference_start, r.reference_end, dd[chrom])
         IN  [st EXCEPT !.total_reads = @ + 1,
                        !.overlapping_reads = IF hit THEN @ + 1 ELSE @,
                        !.annotations = dd]

\* the loop body with the overlap counted ahead of the filters
LoopBodyOverlapBeforeFilters(r, st, mq, rpp) ==
    LET chrom == r.reference_name
        hit == chrom \in DOMAIN st.annotations
                 /\ CheckOverlap(r.reference_start, r.reference_end, st.annotations[chrom])
        counted == [st EXCEPT !.overlapping_reads = IF hit THEN @ + 1 ELSE @]
    IN  IF r.is_unmapped \/ r.is_secondary \/ r.is_supplementary THEN counted
        ELSE IF r.mapping_quality < mq THEN counted
        ELSE IF rpp /\ ~r.is_proper_pair THEN counted
        ELSE [counted EXCEPT !.total_reads = @ + 1]

\* lines 151-171: one pass of the body of `for read in bam.fetch()`;
\* st = [total_reads, overlapping_reads, annotations]
LoopBody(r, st, mq, rpp) ==
    IF r.is_unmapped \/ r.is_secondary \/ r.is_supplementary THEN st
    ELSE IF r.mapping_quality < mq THEN st
    ELSE IF rpp /\ ~r.is_proper_pair THEN st
    ELSE LET chrom == r.reference_name
             hit == chrom \in DOMAIN st.annotations
                      /\ CheckOverlap(r.reference_start, r.reference_end, st.annotations[chrom])
         IN  [st EXCEPT !.total_reads = @ + 1,
                        !.overlapping_reads = IF hit THEN @ + 1 ELSE @]

RECURSIVE LoopOver(_, _, _, _)
LoopOver(bam, st, mq, rpp) ==
    IF bam = <<>> THEN st ELSE LoopOver(Tail(bam), LoopBody(Head(bam), st, mq, rpp), mq, rpp)

\* calculate_overlap_percentage(bam_file, annotations, min_mapq, require_proper_pair)
\* on a BAM file that yields the reads `bam`
CalculateOverlapPercentage(bam, anns, mq, rpp) ==
    LET st == LoopOver(bam, [total_reads |-> 0, overlapping_reads |-> 0, annotations |-> anns], mq, rpp)
    IN  <<st.total_reads, st.overlapping_reads, Percentage(st.overlapping_reads, st.total_reads)>>

\* a fetched read passes the filters
PassesFilters(r, mq, rpp) ==
    /\ ~r.is_unmapped
    /\ ~r.is_secondary
    /\ ~r.is_supplementary
    /\ r.mapping_quality >= mq
    /\ rpp => r.is_proper_pair

\* [reference_start, reference_end) meets an annotation on the read's own chromosome
OverlapsIndex(r, index) ==
    /\ r.reference_name \in DOMAIN index
    /\ Meets(r.reference_start, r.reference_end, index[r.reference_name]) # {}

InitCount ==
    /\ pc = "fetch"
    /\ \E bed \in ExampleBeds :
          /\ annotations = LoadAnnotationsFromBed(bed)
          /\ loaded = LoadAnnotationsFromBed(bed)
    /\ query = NoQuery
    /\ overlap = FALSE
    /\ out_of_order = FALSE
    /\ min_mapq \in 0 .. MaxMapq
    /\ require_proper_pair \in BOOLEAN
    /\ read = NoRead
    /\ total_reads = 0
    /\ overlapping_reads = 0
    /\ passing = 0
    /\ passing_overlap = 0
    /\ result = NoResult
    /\ IdleStats
    /\ IdleTools
    /\ IdleCoverage
    /\ IdleBatch
    /\ IdleMetrics

\* bam.fetch() yields the read r and the loop body runs on it
ProcessRead(r) ==
    /\ pc = "fetch"
    /\ total_reads < MaxReads
    /\ read' = r
    /\ LET st == LoopBody(r, [total_reads |-> total_reads, overlapping_reads |-> overlapping_reads,
                              annotations |-> annotations], min_mapq, require_proper_pair)
       IN  /\ total_reads' = st.total_reads
           /\ overlapping_reads' = st.overlapping_reads
           /\ annotations' = st.annotations
    /\ passing' = IF PassesFilters(r, min_mapq, require_proper_pair) THEN passing + 1 ELSE passing
    /\ passing_overlap' = IF PassesFilters(r, min_mapq, require_proper_pair) /\ OverlapsIndex(r, loaded)
                          THEN passing_overlap + 1 ELSE passing_overlap
    /\ UNCHANGED <<pc, loaded, query, overlap, out_of_order, min_mapq, require_proper_pair, result,
                   outsideCount>>

\* the fetch is exhausted: lines 177-179
Return ==
    /\ pc = "fetch"
    /\ result' = <<total_reads, overlapping_reads, Percentage(overlapping_reads, total_reads)>>
    /\ pc' = "done"
    /\ UNCHANGED <<overlapVars, min_mapq, require_proper_pair, read, total_reads, overlapping_reads,
                   passing, passing_overlap, outsideCount>>

NextCount ==
    \/ \E r \in Reads : ProcessRead(r)
    \/ Return

SpecCount == InitCount /\ [][NextCount]_vars

ExampleRead(chrom, start, end) ==
    [reference_name |-> chrom, reference_start |-> start, reference_end |-> end,
     mapping_quality |-> 0, is_unmapped |-> FALSE, is_secondary |-> FALSE,
     is_supplementary |-> FALSE, is_proper_pair |-> FALSE]

\* C2: the call returns (total, overlapping, percentage): total counts the
\* fetched reads that pass the filters, overlapping those of them that meet an
\* annotation of their own chromosome, percentage = overlapping / total * 100,
\* or 0 when total is 0; annotations {chr1: (100,200),(500,600)} and the reads
\* chr1:150-160, chr1:700-710 give 50% of 2 reads.
C2_ReturnsCountsAndPercentage ==
    /\ pc = "done" =>
          /\ result[1] = passing
          /\ result[2] = passing_overlap
          /\ passing > 0 => FloatEq(result[3], Rat(passing_overlap * 100, passing))
          /\ passing = 0 => FloatEq(result[3], Rat(0, 1))
    /\ CalculateOverlapPercentage(<<ExampleRead("chr1", 150, 160), ExampleRead("chr1", 700, 710)>>,
                                  LoadAnnotationsFromBed(BedChr1), 0, FALSE) = <<2, 1, Rat(100, 2)>>

\* two reads passed the filters and one of them overlapped
C2_Witness ==
    /\ pc = "done"
    /\ result[1] = 2
    /\ result[2] = 1
    /\ FloatEq(result[3], Rat(50, 1))

Excluded(r) ==
    \/ r.is_unmapped \/ r.is_secondary \/ r.is_supplementary
    \/ r.mapping_quality < min_mapq
    \/ require_proper_pair /\ ~r.is_proper_pair

\* C3: a fetched read that is unmapped, secondary or supplementary, or whose
\* mapping quality is below min_mapq, or that is no proper pair while
\* require_proper_pair is set, changes neither counter; every other fetched
\* read raises total_reads by exactly one.
C3_FiltersDecideCounting ==
    [][(pc = "fetch" /\ pc' = "fetch") =>
          /\ Excluded(read') => (total_reads' = total_reads /\ overlapping_reads' = overlapping_reads)
          /\ ~Excluded(read') => total_reads' = total_reads + 1]_vars

\* a supplementary read of full mapping quality in a proper pair was fetched
\* after a counted read and left the counters alone
C3_Witness ==
    /\ pc = "fetch"
    /\ read # NoRead
    /\ read.is_supplementary /\ ~read.is_unmapped /\ ~read.is_secondary
    /\ read.mapping_quality >= min_mapq /\ read.is_proper_pair
    /\ total_reads = 1
    /\ passing = 1

\* C4: a counted read whose chromosome the annotation index does not hold
\* raises total_reads, leaves overlapping_reads alone and adds no entry to the
\* index.
C4_AbsentChromosomeIsNoOverlap ==
    [][(pc = "fetch" /\ pc' = "fetch" /\ ~Excluded(read') /\ read'.reference_name \notin DOMAIN annotations) =>
          /\ total_reads' = total_reads + 1
          /\ overlapping_reads' = overlapping_reads
          /\ annotations' = annotations]_vars

\* a read of chr2 was counted against an index that holds chr1 alone, at
\* coordinates where chr1 has an annotation
C4_Witness ==
    /\ pc = "fetch"
    /\ DOMAIN annotations = {"chr1"}
    /\ read # NoRead
    /\ read.reference_name = "chr2"
    /\ ~Excluded(read)
    /\ Meets(read.reference_start, read.reference_end, annotations["chr1"]) # {}
    /\ total_reads = 1
    /\ overlapping_reads = 0

----------------------------------------------------------------------------
(* dash_analyzer.py: get_coverage *)

RefPositions == 0 .. MaxRef

\* np.zeros(n, dtype=np.int32)
Zeros(n) == [i \in 1 .. n |-> 0]

\* the outcome of a step that may raise: the exception's name ("" for none)
\* and the array after the step
Outcome(exc, arr) == [raised |-> exc, array |-> arr]

\* arr[idx] = val on a numpy array: a negative index counts from the end, an
\* index outside -len .. len - 1 raises IndexError
ArrayStore(arr, idx, val) ==
    IF 0 <= idx /\ idx < Len(arr) THEN Outcome("", [arr EXCEPT ![idx + 1] = val])
    ELSE IF -Len(arr) <= idx /\ idx < 0 THEN Outcome("", [arr EXCEPT ![Len(arr) + idx + 1] = val])
    ELSE Outcome("IndexError", arr)

\* the coverage array with each depth stored at its position, not at its offset
StoreColumnNoOffset(cov, start, end, pos, n) ==
    IF start <= pos /\ pos < end THEN ArrayStore(cov, pos, n) ELSE Outcome("", cov)

\* the loop body without its range test
StoreColumnUnguarded(cov, start, end, pos, n) == ArrayStore(cov, pos - start, n)

\* lines 107-108: if start <= pos < end: coverage[pos - start] = n
StoreColumn(cov, start, end, pos, n) ==
    IF start <= pos /\ pos < end THEN ArrayStore(cov, pos - start, n) ELSE Outcome("", cov)

RECURSIVE StoreColumns(_, _, _, _)
StoreColumns(out, start, end, columns) ==
    IF columns = <<>> \/ out.raised # "" THEN out
    ELSE StoreColumns(StoreColumn(out.array, start, end, Head(columns)[1], Head(columns)[2]), start, end,
                      Tail(columns))

\* get_coverage(chrom, start, end) on a pileup that reports `columns`
GetCoverage(start, end, columns) ==
    IF end - start < 0 THEN Outcome("ValueError", <<>>)
    ELSE StoreColumns(Outcome("", Zeros(end - start)), start, end, columns)

----------------------------------------------------------------------------
(* SpecCoverage: one get_coverage call, pileup column by pileup column *)

InitCoverage ==
    /\ pc = "idle"
    /\ IdleOverlap
    /\ IdleCount
    /\ IdleStats
    /\ IdleTools
    /\ IdleCoverage
    /\ IdleBatch
    /\ IdleMetrics

\* lines 103-104: the array is allocated; np.zeros raises ValueError on a
\* negative length
GetCoverageCall(start, end) ==
    /\ pc = "idle"
    /\ region' = <<start, end>>
    /\ IF end - start < 0
       THEN pc' = "ValueError" /\ UNCHANGED coverage
       ELSE pc' = "pileup" /\ coverage' = Zeros(end - start)
    /\ UNCHANGED <<column, reported, bam_reads, control_reads, outsideCoverage>>

\* lines 106-108: the pileup iterator yields its next column, at a position
\* after the last one
PileupColumn(pos, n) ==
    /\ pc = "pileup"
    /\ pos > column[1]
    /\ column' = <<pos, n>>
    /\ reported' = reported \cup {<<pos, n>>}
    /\ LET stored == StoreColumn(coverage, region[1], region[2], pos, n)
       IN  /\ pc' = IF stored.raised # "" THEN stored.raised ELSE "pileup"
           /\ coverage' = stored.array
    /\ UNCHANGED <<region, bam_reads, control_reads, outsideCoverage>>

\* line 110: the pileup is exhausted
GetCoverageReturn ==
    /\ pc = "pileup"
    /\ pc' = "returned"
    /\ UNCHANGED <<coverageVars, outsideCoverage>>

NextCoverage ==
    \/ \E start \in RefPositions, end \in RefPositions : GetCoverageCall(start, end)
    \/ \E pos \in RefPositions, n \in 0 .. MaxDepth : PileupColumn(pos, n)
    \/ GetCoverageReturn

SpecCoverage == InitCoverage /\ [][NextCoverage]_vars

\* C7: for a region with end >= start the array has length end - start at every
\* step and on return, holds no negative value, holds the reported depth at
\* position - start for every column reported inside the region and 0 at every
\* position not reported; no column is stored outside the array.
C7_CoverageLengthAndDefaults ==
    /\ pc # "IndexError"
    /\ pc = "ValueError" => region[2] < region[1]
    /\ (pc \in {"pileup", "returned"}) =>
          /\ region[2] >= region[1]
          /\ Len(coverage) = region[2] - region[1]
          /\ \A i \in 0 .. Len(coverage) - 1 :
                /\ coverage[i + 1] >= 0
                /\ \A col \in reported : col[1] = region[1] + i => coverage[i + 1] = col[2]
                /\ (\A col \in reported : col[1] # region[1] + i) => coverage[i + 1] = 0

\* a call returned after the pileup reported a column before the region, a
\* column inside it with a positive depth and a column after it, one position
\* of the region never reported
C7_Witness ==
    /\ pc = "returned"
    /\ Len(coverage) >= 2
    /\ \E col \in reported : col[1] < region[1]
    /\ \E col \in reported : col[1] >= region[2]
    /\ \E col \in reported : region[1] <= col[1] /\ col[1] < region[2] /\ col[2] > 0
    /\ \E i \in 0 .. Len(coverage) - 1 : \A col \in reported : col[1] # region[1] + i

----------------------------------------------------------------------------
(* SpecPileup: get_coverage on the pileup of a BAM file's alignment records *)

Segment(start, mapq, unmapped, secondary, supplementary, qcfail, duplicate, paired, proper) ==
    [reference_start |-> start, reference_end |-> start + ReadLen, mapping_quality |-> mapq,
     is_unmapped |-> unmapped, is_secondary |-> secondary, is_supplementary |-> supplementary,
     is_qcfail |-> qcfail, is_duplicate |-> duplicate, is_paired |-> paired,
     is_proper_pair |-> proper]

\* the alignment records of the modelled BAM files: a primary single-end
\* record, one of mapping quality 0, one for each flag that a filter reads,
\* an orphan (paired, no proper pair) and a properly paired record
Segments ==
    UNION {{Segment(p, 60, FALSE, FALSE, FALSE, FALSE, FALSE, FALSE, FALSE),
            Segment(p, 0, FALSE, FALSE, FALSE, FALSE, FALSE, FALSE, FALSE),
            Segment(p, 60, TRUE, FALSE, FALSE, FALSE, FALSE, FALSE, FALSE),
            Segment(p, 60, FALSE, TRUE, FALSE, FALSE, FALSE, FALSE, FALSE),
            Segment(p, 60, FALSE, FALSE, TRUE, FALSE, FALSE, FALSE, FALSE),
            Segment(p, 60, FALSE, FALSE, FALSE, TRUE, FALSE, FALSE, FALSE),
            Segment(p, 60, FALSE, FALSE, FALSE, FALSE, TRUE, FALSE, FALSE),
            Segment(p, 60, FALSE, FALSE, FALSE, FALSE, FALSE, TRUE, FALSE),
            Segment(p, 60, FALSE, FALSE, FALSE, FALSE, FALSE, TRUE, TRUE)} : p \in 0 .. MaxRef - 1}

Covers(r, pos) == r.reference_start <= pos /\ pos < r.reference_end

\* line 106 passes pileup() a region and truncate=True and no filter
\* argument, so the pileup's defaults decide which records a column counts:
\* flag_filter = UNMAP | SECONDARY | QCFAIL | DUP, ignore_orphans = True,
\* min_mapping_quality = 0
PileupCounts(r) ==
    /\ ~r.is_unmapped
    /\ ~r.is_secondary
    /\ ~r.is_qcfail
    /\ ~r.is_duplicate
    /\ r.is_paired => r.is_proper_pair

ColumnDepth(reads, pos) == Cardinality({k \in 1 .. Len(reads) : Covers(reads[k], pos) /\ PileupCounts(reads[k])})

RECURSIVE PileupFrom(_, _, _)
\* bam.pileup(chrom, start, end, truncate=True): a column <<pos, n>> for every
\* position of [start, end) that some counted record covers, in ascending order
PileupFrom(reads, pos, end) ==
    IF pos >= end THEN <<>>
    ELSE IF ColumnDepth(reads, pos) > 0
         THEN <<<<pos, ColumnDepth(reads, pos)>>>> \o PileupFrom(reads, pos + 1, end)
         ELSE PileupFrom(reads, pos + 1, end)

Pileup(reads, start, end) == PileupFrom(reads, start, end)

InitPileup ==
    /\ pc = "open"
    /\ IdleOverlap
    /\ IdleCount
    /\ IdleStats
    /\ IdleTools
    /\ IdleCoverage
    /\ IdleBatch
    /\ IdleMetrics

\* the BAM file holds one more record (a sorted file: starts do not decrease)
BamRecord(r) ==
    /\ pc = "open"
    /\ Len(bam_reads) < MaxBam
    /\ bam_reads # <<>> => bam_reads[Len(bam_reads)].reference_start <= r.reference_start
    /\ bam_reads' = Append(bam_reads, r)
    /\ UNCHANGED <<pc, region, coverage, column, reported, control_reads, outsideCoverage>>

\* self.get_coverage(chrom, start, end) as a whole
GetCoverageOfBam(start, end) ==
    /\ pc = "open"
    /\ region' = <<start, end>>
    /\ LET columns == Pileup(bam_reads, start, end)
           out == GetCoverage(start, end, columns)
       IN  /\ pc' = IF out.raised # "" THEN out.raised ELSE "returned"
           /\ coverage' = out.array
           /\ reported' = {columns[k] : k \in 1 .. Len(columns)}
    /\ UNCHANGED <<column, bam_reads, control_reads, outsideCoverage>>

NextPileup ==
    \/ \E r \in Segments : BamRecord(r)
    \/ \E start \in RefPositions, end \in RefPositions : GetCoverageOfBam(start, end)

SpecPileup == InitPileup /\ [][NextPileup]_vars

\* the records of the file that cover a position and that the read filters
\* of calculate_overlap_percentage keep at their most permissive setting
\* (min_mapq = 0, require_proper_pair = False)
PrimaryCovering(pos) ==
    {k \in 1 .. Len(bam_reads) :
        /\ Covers(bam_reads[k], pos)
        /\ ~bam_reads[k].is_unmapped /\ ~bam_reads[k].is_secondary /\ ~bam_reads[k].is_supplementary}

----------------------------------------------------------------------------
(* dash_analyzer.py: the metrics of a coverage array *)

RECURSIVE Sum(_)
Sum(arr) == IF arr = <<>> THEN 0 ELSE Head(arr) + Sum(Tail(arr))

RECURSIVE SumSquares(_)
SumSquares(arr) == IF arr = <<>> THEN 0 ELSE Head(arr) * Head(arr) + SumSquares(Tail(arr))

\* np.mean: nan for an empty array
Mean(arr) == Rat(Sum(arr), Len(arr))

\* np.sum(arr == 0)
CountZeros(arr) == Cardinality({i \in 1 .. Len(arr) : arr[i] = 0})

RECURSIVE InsertInt(_, _)
InsertInt(x, s) ==
    IF s = <<>> THEN <<x>>
    ELSE IF x < Head(s) THEN <<x>> \o s
    ELSE <<Head(s)>> \o InsertInt(x, Tail(s))

RECURSIVE SortInts(_)
SortInts(s) == IF s = <<>> THEN <<>> ELSE InsertInt(Head(s), SortInts(Tail(s)))

\* np.median: the middle order statistic, the mean of the two middle ones for
\* an even length, nan for an empty array
Median(arr) ==
    LET sorted == SortInts(arr)
        n == Len(arr)
    IN  IF n = 0 THEN NaN
        ELSE IF n % 2 = 1 THEN Rat(sorted[(n + 1) \div 2], 1)
        ELSE Rat(sorted[n \div 2] + sorted[n \div 2 + 1], 2)

\* (np.std(arr) / np.mean(arr)) squared, for an array of non-zero mean: the
\* population variance (n * sum of squares - sum squared) / n^2 over the
\* squared mean
CvSquared(arr) == Rat(Len(arr) * SumSquares(arr) - Sum(arr) * Sum(arr), Sum(arr) * Sum(arr))

\* a value sqrt(q), held by its square q
SqrtOf(q) == [sqrt_of |-> q]

\* the coefficient of variation on the sample standard deviation (divisor
\* N - 1) in place of the population one
CalculateUniformitySample(arr) ==
    IF Len(arr) = 0 \/ FloatEq(Mean(arr), Rat(0, 1)) THEN [zero |-> TRUE, cv2 |-> Rat(0, 1)]
    ELSE [zero |-> FALSE,
          cv2 |-> Rat(Len(arr) * (Len(arr) * SumSquares(arr) - Sum(arr) * Sum(arr)),
                      (Len(arr) - 1) * Sum(arr) * Sum(arr))]

\* calculate_uniformity: 0.0 for an empty array or a zero mean, else
\* 1 / (1 + cv), held by the square of cv
CalculateUniformity(arr) ==
    IF Len(arr) = 0 \/ FloatEq(Mean(arr), Rat(0, 1)) THEN [zero |-> TRUE, cv2 |-> Rat(0, 1)]
    ELSE [zero |-> FALSE, cv2 |-> CvSquared(arr)]

\* the control branch without the clipping to [0, 1]
CalculateDepletionEfficiencyUnclipped(treated, control) ==
    IF ~control.is_none
    THEN IF FloatEq(Mean(control.array), Rat(0, 1)) THEN Rat(0, 1)
         ELSE FloatSub(Rat(1, 1), FloatDiv(Mean(treated), Mean(control.array)))
    ELSE IF Len(treated) = 0 THEN Rat(0, 1)
         ELSE Rat(CountZeros(treated), Len(treated))

\* the branch without a control counting the covered bases, not the uncovered
CalculateDepletionEfficiencyCovered(treated, control) ==
    IF ~control.is_none
    THEN IF FloatEq(Mean(control.array), Rat(0, 1)) THEN Rat(0, 1)
         ELSE PyMax(Rat(0, 1), PyMin(Rat(1, 1), FloatSub(Rat(1, 1), FloatDiv(Mean(treated), Mean(control.array)))))
    ELSE IF Len(treated) = 0 THEN Rat(0, 1)
         ELSE Rat(Len(treated) - CountZeros(treated), Len(treated))

\* calculate_depletion_efficiency(treated_coverage, control_coverage)
CalculateDepletionEfficiency(treated, control) ==
    IF ~control.is_none
    THEN LET treated_mean == Mean(treated)
             control_mean == Mean(control.array)
         IN  IF FloatEq(control_mean, Rat(0, 1)) THEN Rat(0, 1)
             ELSE PyMax(Rat(0, 1), PyMin(Rat(1, 1), FloatSub(Rat(1, 1), FloatDiv(treated_mean, control_mean))))
    ELSE IF Len(treated) = 0 THEN Rat(0, 1)
         ELSE Rat(CountZeros(treated), Len(treated))

\* the metrics with the coefficient of variation left unguarded: std / mean
\* whatever the mean
DepletionMetricsOfUnguardedCv(tg, treated, control) ==
    [grna_name |-> tg.name,
     target_region |-> <<tg.chrom, tg.start, tg.end>>,
     mean_coverage |-> Mean(treated),
     median_coverage |-> Median(treated),
     depletion_efficiency |-> CalculateDepletionEfficiency(treated, control),
     coverage_uniformity |-> CalculateUniformity(treated),
     zero_coverage_fraction |-> IF Len(treated) > 0 THEN Rat(CountZeros(treated), Len(treated)) ELSE Rat(0, 1),
     coefficient_of_variation |-> SqrtOf(CvSquared(treated))]

\* the metrics with the mean and the median taken from the control array
\* when there is one
DepletionMetricsOfControlTrack(tg, treated, control) ==
    LET source == IF control.is_none THEN treated ELSE control.array
    IN  [grna_name |-> tg.name,
         target_region |-> <<tg.chrom, tg.start, tg.end>>,
         mean_coverage |-> Mean(source),
         median_coverage |-> Median(source),
         depletion_efficiency |-> CalculateDepletionEfficiency(treated, control),
         coverage_uniformity |-> CalculateUniformity(treated),
         zero_coverage_fraction |-> IF Len(treated) > 0 THEN Rat(CountZeros(treated), Len(treated)) ELSE Rat(0, 1),
         coefficient_of_variation |-> IF FloatLt(Rat(0, 1), Mean(treated)) THEN SqrtOf(CvSquared(treated))
                                      ELSE SqrtOf(Rat(0, 1))]

\* lines 181-198 of analyze_grna_target, on the arrays get_coverage returned
DepletionMetricsOf(tg, treated, control) ==
    LET mean_cov == Mean(treated)
    IN  [grna_name |-> tg.name,
         target_region |-> <<tg.chrom, tg.start, tg.end>>,
         mean_coverage |-> mean_cov,
         median_coverage |-> Median(treated),
         depletion_efficiency |-> CalculateDepletionEfficiency(treated, control),
         coverage_uniformity |-> CalculateUniformity(treated),
         zero_coverage_fraction |-> IF Len(treated) > 0 THEN Rat(CountZeros(treated), Len(treated)) ELSE Rat(0, 1),
         coefficient_of_variation |-> IF FloatLt(Rat(0, 1), mean_cov) THEN SqrtOf(CvSquared(treated))
                                      ELSE SqrtOf(Rat(0, 1))]

----------------------------------------------------------------------------
(* SpecMetrics: one call of calculate_depletion_efficiency or of            *)
(* analyze_grna_target on an analyzer with or without a control BAM         *)

\* the arrays get_coverage returns for a region of n positions
Tracks(n) == [1 .. n -> 0 .. MaxDepth]

AllTracks == UNION {Tracks(n) : n \in 0 .. MaxLen}

Given(arr) == [is_none |-> FALSE, array |-> arr]

TargetStarts == {0, 100}

InitMetrics ==
    /\ pc = "ready"
    /\ IdleOverlap
    /\ IdleCount
    /\ IdleStats
    /\ IdleTools
    /\ IdleCoverage
    /\ IdleBatch
    /\ control_bam \in BOOLEAN
    /\ target = NoTarget
    /\ treated_cov = <<>>
    /\ control_cov = NoneArray
    /\ efficiency = Rat(0, 1)
    /\ uniformity = NoUniformity
    /\ metrics = NoMetrics

\* analyzer.calculate_depletion_efficiency(treated, control)
CallDepletionEfficiency(treated, control) ==
    /\ pc = "ready"
    /\ treated_cov' = treated
    /\ control_cov' = control
    /\ efficiency' = CalculateDepletionEfficiency(treated, control)
    /\ pc' = "efficiency"
    /\ UNCHANGED <<control_bam, target, uniformity, metrics, outsideMetrics>>

\* analyzer.analyze_grna_target(target): get_coverage gives the treated array
\* and, when the analyzer holds a control handle, the control array of the
\* same region
AnalyzeGrnaTarget(start, treated, control) ==
    /\ pc = "ready"
    /\ Len(control) = Len(treated)
    /\ LET tg == [name |-> "gRNA1", chrom |-> "chr1", start |-> start, end |-> start + Len(treated)]
           cc == IF control_bam THEN Given(control) ELSE NoneArray
       IN  /\ target' = tg
           /\ treated_cov' = treated
           /\ control_cov' = cc
           /\ metrics' = DepletionMetricsOf(tg, treated, cc)
    /\ pc' = "analyzed"
    /\ UNCHANGED <<control_bam, efficiency, uniformity, outsideMetrics>>

\* analyzer.calculate_uniformity(coverage)
CallUniformity(cov) ==
    /\ pc = "ready"
    /\ treated_cov' = cov
    /\ uniformity' = CalculateUniformity(cov)
    /\ pc' = "uniformity"
    /\ UNCHANGED <<control_bam, target, control_cov, efficiency, metrics, outsideMetrics>>

\* the modelled program makes one call on its analyzer: on any two arrays, or
\* on no control array,
EfficiencyCall ==
    /\ pc = "ready"
    /\ \E treated \in AllTracks, control \in {Given(c) : c \in AllTracks} \cup {NoneArray} :
          CallDepletionEfficiency(treated, control)

\* or on a target, whose two arrays have the target's length
TargetAnalysis ==
    /\ pc = "ready"
    /\ \E start \in TargetStarts, treated \in AllTracks :
          \E control \in Tracks(Len(treated)) : AnalyzeGrnaTarget(start, treated, control)

\* or of the uniformity of any array
UniformityCall ==
    /\ pc = "ready"
    /\ \E cov \in AllTracks : CallUniformity(cov)

NextMetrics == EfficiencyCall \/ TargetAnalysis \/ UniformityCall

SpecMetrics == InitMetrics /\ [][NextMetrics]_vars

\* clip(1 - (ts/tl) / (cs/cl), 0, 1) for arrays of sums ts, cs and lengths
\* tl, cl > 0 with cs > 0, in integers: 1 - ts*cl / (tl*cs)
ClippedRatio(ts, tl, cs, cl) ==
    IF ts * cl >= tl * cs THEN Rat(0, 1)
    ELSE IF ts * cl <= 0 THEN Rat(1, 1)
    ELSE Rat(tl * cs - ts * cl, tl * cs)

\* C9: with a control array the efficiency is clip(1 - mean(treated) /
\* mean(control), 0, 1): 0 when mean(control) is 0, 0 when mean(treated) >=
\* mean(control), 1 when treated is all zeros and mean(control) > 0, and
\* always a number of [0, 1]; [0,0,0,0] against [10,10,10,10] gives 1 and
\* [10,10,10,10] against [0,0,0,0] gives 0.
C9_EfficiencyWithControl ==
    /\ (pc = "efficiency" /\ ~control_cov.is_none) =>
          LET ts == Sum(treated_cov)
              tl == Len(treated_cov)
              cs == Sum(control_cov.array)
              cl == Len(control_cov.array)
          IN  /\ ~IsNaN(efficiency) /\ ~IsInf(efficiency)
              /\ FloatLe(Rat(0, 1), efficiency) /\ FloatLe(efficiency, Rat(1, 1))
              /\ (cl > 0 /\ cs = 0) => FloatEq(efficiency, Rat(0, 1))
              /\ (tl > 0 /\ cl > 0 /\ cs > 0) => FloatEq(efficiency, ClippedRatio(ts, tl, cs, cl))
              /\ (tl > 0 /\ cl > 0 /\ ts * cl >= cs * tl) => FloatEq(efficiency, Rat(0, 1))
              /\ (tl > 0 /\ ts = 0 /\ cl > 0 /\ cs > 0) => FloatEq(efficiency, Rat(1, 1))
    /\ FloatEq(CalculateDepletionEfficiency(<<0, 0, 0, 0>>, Given(<<10, 10, 10, 10>>)), Rat(1, 1))
    /\ FloatEq(CalculateDepletionEfficiency(<<10, 10, 10, 10>>, Given(<<0, 0, 0, 0>>)), Rat(0, 1))

\* the treated mean lies above a positive control mean and the result is 0
C9_Witness ==
    /\ pc = "efficiency"
    /\ ~control_cov.is_none
    /\ Len(treated_cov) > 0
    /\ Len(control_cov.array) > 0
    /\ Sum(control_cov.array) > 0
    /\ Sum(treated_cov) * Len(control_cov.array) > Sum(control_cov.array) * Len(treated_cov)
    /\ FloatEq(efficiency, Rat(0, 1))

\* C10: without a control array the efficiency is count(treated == 0) /
\* len(treated), 0 for an empty array; the metrics of an analyzer without a
\* control sample have depletion_efficiency = zero_coverage_fraction.
C10_EfficiencyWithoutControl ==
    /\ (pc = "efficiency" /\ control_cov.is_none) =>
          /\ Len(treated_cov) = 0 => FloatEq(efficiency, Rat(0, 1))
          /\ Len(treated_cov) > 0 =>
                FloatEq(efficiency, Rat(Cardinality({i \in DOMAIN treated_cov : treated_cov[i] = 0}),
                                        Len(treated_cov)))
    /\ (pc = "analyzed" /\ ~control_bam) =>
          /\ control_cov.is_none
          /\ FloatEq(metrics.depletion_efficiency, metrics.zero_coverage_fraction)

\* an analyzer without a control analyzed a target of which one base in three
\* is uncovered
C10_Witness ==
    /\ pc = "analyzed"
    /\ ~control_bam
    /\ Len(treated_cov) = 3
    /\ FloatEq(metrics.depletion_efficiency, Rat(1, 3))
    /\ FloatEq(metrics.zero_coverage_fraction, Rat(1, 3))

----------------------------------------------------------------------------
(* calculate_uniformity *)

\* the uniformity u = 1 / (1 + cv) is held by cv squared: u lies in (0, 1]
\* when cv is a finite number >= 0, and u = 1.0 when cv = 0
UniformityInHalfOpenUnit(u) ==
    /\ ~u.zero
    /\ ~IsNaN(u.cv2) /\ ~IsInf(u.cv2)
    /\ FloatLe(Rat(0, 1), u.cv2)

UniformityIsOne(u) == ~u.zero /\ FloatEq(u.cv2, Rat(0, 1))

\* sum over i of (n * arr[i] - sum(arr))^2, which is n^2 times the sum of
\* the squared deviations from the mean
RECURSIVE ScaledSquaredDeviations(_, _, _)
ScaledSquaredDeviations(arr, n, total) ==
    IF arr = <<>> THEN 0
    ELSE (n * Head(arr) - total) * (n * Head(arr) - total) + ScaledSquaredDeviations(Tail(arr), n, total)

AllEqualNonZero(arr) == Len(arr) > 0 /\ arr[1] # 0 /\ \A i \in DOMAIN arr : arr[i] = arr[1]

----------------------------------------------------------------------------
(* The ranges of a DepletionMetrics record *)

Finite(x) == ~IsNaN(x) /\ ~IsInf(x)

InUnit(x) == Finite(x) /\ FloatLe(Rat(0, 1), x) /\ FloatLe(x, Rat(1, 1))

\* a value sqrt(q) is a number >= 0 when q is
NonNegativeSqrt(v) == Finite(v.sqrt_of) /\ FloatLe(Rat(0, 1), v.sqrt_of)

\* C12 as stated: every record analyze_grna_target returns has
\* depletion_efficiency in [0,1], coverage_uniformity in (0,1],
\* zero_coverage_fraction in [0,1] and coefficient_of_variation >= 0.
C12_MetricsRanges ==
    pc = "analyzed" =>
        /\ InUnit(metrics.depletion_efficiency)
        /\ UniformityInHalfOpenUnit(metrics.coverage_uniformity)
        /\ InUnit(metrics.zero_coverage_fraction)
        /\ NonNegativeSqrt(metrics.coefficient_of_variation)

\* C12 amended: every record analyze_grna_target returns, with or without a
\* control, has depletion_efficiency in [0,1], zero_coverage_fraction in
\* [0,1], coefficient_of_variation >= 0 and coverage_uniformity in [0,1]:
\* the uniformity is 0 exactly when the track is empty or all zero, and in
\* (0,1] otherwise.
C12_MetricsRangesClosedUniformity ==
    pc = "analyzed" =>
        /\ InUnit(metrics.depletion_efficiency)
        /\ InUnit(metrics.zero_coverage_fraction)
        /\ NonNegativeSqrt(metrics.coefficient_of_variation)
        /\ metrics.coverage_uniformity.zero <=> (Len(treated_cov) = 0 \/ Sum(treated_cov) = 0)
        /\ ~metrics.coverage_uniformity.zero => UniformityInHalfOpenUnit(metrics.coverage_uniformity)

\* a fully depleted target: the track is all zeros and its uniformity is 0
C12_Witness ==
    /\ pc = "analyzed"
    /\ treated_cov = <<0, 0, 0>>
    /\ metrics.coverage_uniformity.zero
    /\ FloatEq(metrics.zero_coverage_fraction, Rat(1, 1))

\* the six scalars of a record
IsZeroRecord(m) ==
    /\ FloatEq(m.mean_coverage, Rat(0, 1))
    /\ FloatEq(m.median_coverage, Rat(0, 1))
    /\ FloatEq(m.depletion_efficiency, Rat(0, 1))
    /\ m.coverage_uniformity.zero
    /\ FloatEq(m.zero_coverage_fraction, Rat(0, 1))
    /\ FloatEq(m.coefficient_of_variation.sqrt_of, Rat(0, 1))

AllScalarsFinite(m) ==
    /\ Finite(m.mean_coverage)
    /\ Finite(m.median_coverage)
    /\ Finite(m.depletion_efficiency)
    /\ m.coverage_uniformity.zero \/ Finite(m.coverage_uniformity.cv2)
    /\ Finite(m.zero_coverage_fraction)
    /\ Finite(m.coefficient_of_variation.sqrt_of)

\* C13: for a target with end = start, analyze_grna_target, with or without
\* a control, returns the all-zero record (mean, median, depletion
\* efficiency, uniformity, zero-coverage fraction and coefficient of
\* variation all 0), and every scalar of every returned record is finite.
C13_EmptyTrackGivesZeroRecord ==
    pc = "analyzed" =>
        /\ AllScalarsFinite(metrics)
        /\ Len(treated_cov) = 0 => IsZeroRecord(metrics)

----------------------------------------------------------------------------
(* The scalars of analyze_grna_target *)

\* the k-th smallest element of arr, by counting
KthSmallest(arr, k) ==
    CHOOSE v \in {arr[i] : i \in DOMAIN arr} :
        /\ Cardinality({i \in DOMAIN arr : arr[i] < v}) < k
        /\ Cardinality({i \in DOMAIN arr : arr[i] <= v}) >= k

\* the order-statistic median of a non-empty array
OrderStatisticMedian(arr) ==
    LET n == Len(arr)
    IN  IF n % 2 = 1 THEN Rat(KthSmallest(arr, (n + 1) \div 2), 1)
        ELSE Rat(KthSmallest(arr, n \div 2) + KthSmallest(arr, n \div 2 + 1), 2)

\* C14: for a non-empty treated track analyze_grna_target sets mean_coverage
\* to sum / length, median_coverage to the order-statistic median (the
\* average of the two middle values for an even length),
\* zero_coverage_fraction to count(depth = 0) / length and
\* coefficient_of_variation to population std / mean, 0 when the mean is 0;
\* all four from the treated track, whatever the control track holds.
C14_ScalarsOfTreatedTrack ==
    (pc = "analyzed" /\ Len(treated_cov) > 0) =>
        LET n == Len(treated_cov)
            total == Sum(treated_cov)
            cv2 == metrics.coefficient_of_variation.sqrt_of
        IN  /\ FloatEq(metrics.mean_coverage, Rat(total, n))
            /\ FloatEq(metrics.median_coverage, OrderStatisticMedian(treated_cov))
            /\ FloatEq(metrics.zero_coverage_fraction,
                       Rat(Cardinality({i \in DOMAIN treated_cov : treated_cov[i] = 0}), n))
            /\ total = 0 => FloatEq(cv2, Rat(0, 1))
            /\ total # 0 =>
                  /\ Finite(cv2)
                  /\ cv2.num * n * total * total = ScaledSquaredDeviations(treated_cov, n, total) * cv2.den

\* a target whose control track differs from its treated track [0, 2]: mean
\* 1, median 1, half of the bases uncovered, cv 1
C14_Witness ==
    /\ pc = "analyzed"
    /\ control_bam
    /\ treated_cov = <<0, 2>>
    /\ control_cov.array = <<2, 2>>
    /\ FloatEq(metrics.mean_coverage, Rat(1, 1))
    /\ FloatEq(metrics.median_coverage, Rat(1, 1))
    /\ FloatEq(metrics.zero_coverage_fraction, Rat(1, 2))
    /\ FloatEq(metrics.coefficient_of_variation.sqrt_of, Rat(1, 1))

----------------------------------------------------------------------------
(* SpecTargets: analyze_multiple_targets on an opened analyzer *)

GRNATarget(name, chrom, start, end) == [name |-> name, chrom |-> chrom, start |-> start, end |-> end]

\* the targets handed to the analyzer: two overlapping regions and an empty one
TargetChoices ==
    {GRNATarget("gRNA1", "chr1", 0, 2), GRNATarget("gRNA2", "chr1", 1, 3), GRNATarget("gRNA3", "chr1", 2, 2)}

TargetLists == UNION {[1 .. n -> TargetChoices] : n \in 0 .. MaxTargets}

PrimaryAt(p) == Segment(p, 60, FALSE, FALSE, FALSE, FALSE, FALSE, FALSE, FALSE)

\* the contents of the BAM files the analyzer is opened on
BamFiles == {<<>>, <<PrimaryAt(0)>>, <<PrimaryAt(0), PrimaryAt(1)>>, <<PrimaryAt(1), PrimaryAt(1)>>}

\* lines 173-179: the treated array, and the control array when the analyzer
\* holds a control handle
TreatedCoverage(tg, reads) == GetCoverage(tg.start, tg.end, Pileup(reads, tg.start, tg.end)).array

ControlCoverage(tg, has_control, creads) ==
    IF has_control THEN Given(GetCoverage(tg.start, tg.end, Pileup(creads, tg.start, tg.end)).array)
    ELSE NoneArray

\* analyze_grna_target(target) on an analyzer whose handles read `reads` and
\* `creads`
AnalyzeTarget(tg, reads, has_control, creads) ==
    DepletionMetricsOf(tg, TreatedCoverage(tg, reads), ControlCoverage(tg, has_control, creads))

\* a loop that puts each result in front of the earlier ones
PrependResult(res, m) == <<m>> \o res

\* line 213: results.append(metrics)
AppendResult(res, m) == Append(res, m)

\* __enter__: the handles are open on their files
InitTargets ==
    /\ pc = "open"
    /\ IdleOverlap
    /\ IdleCount
    /\ IdleStats
    /\ IdleTools
    /\ region = <<0, 0>>
    /\ coverage = <<>>
    /\ column = NoColumn
    /\ reported = {}
    /\ bam_reads \in BamFiles
    /\ control_bam \in BOOLEAN
    /\ control_reads \in (IF control_bam THEN BamFiles ELSE {<<>>})
    /\ target = NoTarget
    /\ treated_cov = <<>>
    /\ control_cov = NoneArray
    /\ efficiency = Rat(0, 1)
    /\ uniformity = NoUniformity
    /\ metrics = NoMetrics
    /\ IdleBatch

\* line 210: results = []
AnalyzeMultipleTargetsCall(tl) ==
    /\ pc = "open"
    /\ targets' = tl
    /\ results' = <<>>
    /\ pc' = "loop"
    /\ UNCHANGED <<workers, coverageVars, metricsVars, outsideBatch>>

\* lines 211-213: one pass of the loop, the whole analyze_grna_target call of
\* the next target
LoopIteration ==
    /\ pc = "loop"
    /\ Len(results) < Len(targets)
    /\ LET tg == targets[Len(results) + 1]
       IN  /\ target' = tg
           /\ treated_cov' = TreatedCoverage(tg, bam_reads)
           /\ control_cov' = ControlCoverage(tg, control_bam, control_reads)
           /\ metrics' = AnalyzeTarget(tg, bam_reads, control_bam, control_reads)
           /\ results' = AppendResult(results, AnalyzeTarget(tg, bam_reads, control_bam, control_reads))
    /\ UNCHANGED <<pc, targets, workers, control_bam, efficiency, uniformity, coverageVars, outsideBatch>>

\* line 214: return results
ReturnResults ==
    /\ pc = "loop"
    /\ Len(results) = Len(targets)
    /\ pc' = "returned"
    /\ UNCHANGED <<batchVars, coverageVars, metricsVars, outsideBatch>>

NextTargets ==
    \/ \E tl \in TargetLists : AnalyzeMultipleTargetsCall(tl)
    \/ LoopIteration
    \/ ReturnResults

SpecTargets == InitTargets /\ [][NextTargets]_vars

\* C15: analyze_multiple_targets returns one DepletionMetrics per target, in
\* input order: the i-th result has the i-th target's name and region and is
\* the record analyze_grna_target gives for that target alone; an empty list
\* of targets gives an empty list of results.
C15_OneResultPerTargetInOrder ==
    /\ pc = "loop" => Len(results) <= Len(targets)
    /\ pc = "returned" => Len(results) = Len(targets)
    /\ (pc \in {"loop", "returned"}) =>
          \A i \in 1 .. Len(results) :
              /\ i <= Len(targets)
              /\ results[i].grna_name = targets[i].name
              /\ results[i].target_region = <<targets[i].chrom, targets[i].start, targets[i].end>>
              /\ results[i] = AnalyzeTarget(targets[i], bam_reads, control_bam, control_reads)

\* two different targets with different metrics were analysed and returned
C15_Witness ==
    /\ pc = "returned"
    /\ Len(targets) = 2
    /\ Len(results) = 2
    /\ targets[1].name = "gRNA2"
    /\ targets[2].name = "gRNA1"
    /\ results[1].grna_name = "gRNA2"
    /\ ~FloatEq(results[1].mean_coverage, results[2].mean_coverage)

----------------------------------------------------------------------------
(* SpecWorkers: several callers analyse targets on one opened analyzer,    *)
(* their analyze_grna_target calls interleaved line by line                *)

Workers == 1 .. MaxWorkers

\* the locals of a call of analyze_grna_target
IdleWorker ==
    [pc |-> "idle", target |-> NoTarget, treated_cov |-> <<>>, control_cov |-> NoneArray,
     metrics |-> NoMetrics]

InitWorkers ==
    /\ pc = "open"
    /\ IdleOverlap
    /\ IdleCount
    /\ IdleStats
    /\ IdleTools
    /\ region = <<0, 0>>
    /\ coverage = <<>>
    /\ column = NoColumn
    /\ reported = {}
    /\ bam_reads \in BamFiles
    /\ control_bam \in BOOLEAN
    /\ control_reads \in (IF control_bam THEN BamFiles ELSE {<<>>})
    /\ target = NoTarget
    /\ treated_cov = <<>>
    /\ control_cov = NoneArray
    /\ efficiency = Rat(0, 1)
    /\ uniformity = NoUniformity
    /\ metrics = NoMetrics
    /\ targets = <<>>
    /\ results = <<>>
    /\ workers = [w \in Workers |-> IdleWorker]

\* a get_coverage that keeps its array in a buffer of the analyzer, which
\* every caller's treated_cov then names
WorkerGetTreatedShared(w, tg) ==
    /\ workers[w].pc = "idle"
    /\ workers' = [v \in Workers |->
                      IF v = w THEN [workers[v] EXCEPT !.pc = "treated", !.target = tg,
                                                       !.treated_cov = TreatedCoverage(tg, bam_reads)]
                      ELSE [workers[v] EXCEPT !.treated_cov = TreatedCoverage(tg, bam_reads)]]
    /\ UNCHANGED <<pc, targets, results, coverageVars, metricsVars, outsideBatch>>

\* the call and line 173: treated_cov = self.get_coverage(...), a fresh array
WorkerGetTreated(w, tg) ==
    /\ workers[w].pc = "idle"
    /\ workers' = [workers EXCEPT ![w] = [@ EXCEPT !.pc = "treated", !.target = tg,
                                                   !.treated_cov = TreatedCoverage(tg, bam_reads)]]
    /\ UNCHANGED <<pc, targets, results, coverageVars, metricsVars, outsideBatch>>

\* lines 176-179: control_cov
WorkerGetControl(w) ==
    /\ workers[w].pc = "treated"
    /\ LET l == workers[w]
       IN  workers' = [workers EXCEPT ![w] = [l EXCEPT !.pc = "control",
                                                       !.control_cov = ControlCoverage(l.target, control_bam,
                                                                                       control_reads)]]
    /\ UNCHANGED <<pc, targets, results, coverageVars, metricsVars, outsideBatch>>

\* lines 181-198: the record, from the caller's two arrays
WorkerMetrics(w) ==
    /\ workers[w].pc = "control"
    /\ LET l == workers[w]
       IN  workers' = [workers EXCEPT ![w] = [l EXCEPT !.pc = "done",
                                                       !.metrics = DepletionMetricsOf(l.target, l.treated_cov,
                                                                                      l.control_cov)]]
    /\ UNCHANGED <<pc, targets, results, coverageVars, metricsVars, outsideBatch>>

NextWorkers ==
    \/ \E w \in Workers, tg \in TargetChoices : WorkerGetTreated(w, tg)
    \/ \E w \in Workers : WorkerGetControl(w)
    \/ \E w \in Workers : WorkerMetrics(w)

SpecWorkers == InitWorkers /\ [][NextWorkers]_vars

\* what a caller holds is what its target gives on its own
WorkerHoldsOwnAnalysis(w) ==
    LET l == workers[w]
    IN  /\ l.pc \in {"treated", "control", "done"} => l.treated_cov = TreatedCoverage(l.target, bam_reads)
        /\ l.pc \in {"control", "done"} => l.control_cov = ControlCoverage(l.target, control_bam, control_reads)
        /\ l.pc = "done" => l.metrics = AnalyzeTarget(l.target, bam_reads, control_bam, control_reads)

\* a step leaves the handles and every caller but one alone
StepTouchesOneWorker ==
    /\ bam_reads' = bam_reads
    /\ control_reads' = control_reads
    /\ control_bam' = control_bam
    /\ \A w \in Workers, v \in Workers : (w # v /\ workers'[w] # workers[w]) => workers'[v] = workers[v]

----------------------------------------------------------------------------
(* dash_statistics.py: arithmetic on float64 values, exact and in lowest   *)
(* terms                                                                   *)

Abs(k) == IF k < 0 THEN -k ELSE k

RECURSIVE Gcd(_, _)
Gcd(a, b) == IF b = 0 THEN a ELSE Gcd(b, a % b)

\* the same value in lowest terms with a positive denominator; nan and the
\* infinities are kept
Norm(x) ==
    IF x.den = 0 THEN Rat(Sign(x.num), 0)
    ELSE LET g == Gcd(Abs(x.num), Abs(x.den))
         IN  Rat(Sign(x.den) * (x.num \div g), Abs(x.den) \div g)

FloatAdd(x, y) ==
    IF IsNaN(x) \/ IsNaN(y) THEN NaN
    ELSE IF IsInf(x) /\ IsInf(y) THEN (IF Sign(x.num) = Sign(y.num) THEN Rat(Sign(x.num), 0) ELSE NaN)
    ELSE IF IsInf(x) THEN Rat(Sign(x.num), 0)
    ELSE IF IsInf(y) THEN Rat(Sign(y.num), 0)
    ELSE Norm(Rat(x.num * y.den + y.num * x.den, x.den * y.den))

FloatMul(x, y) ==
    IF IsNaN(x) \/ IsNaN(y) THEN NaN
    ELSE IF IsInf(x) \/ IsInf(y) THEN Rat(Sign(x.num) * Sign(y.num), 0)
    ELSE Norm(Rat(x.num * y.num, x.den * y.den))

Minus(x, y) == Norm(FloatSub(Norm(x), Norm(y)))

Over(x, y) == Norm(FloatDiv(Norm(x), Norm(y)))

Float(k) == Rat(k, 1)

\* a value sign * sqrt(sq): the quotient of a float by a square root, held by
\* its sign and its square; nan is held as sign 0 with square nan
Root(sign, sq) == [sign |-> sign, sq |-> sq]

NaNRoot == Root(0, NaN)

ZeroRoot == Root(0, Float(0))

IsNaNRoot(r) == IsNaN(r.sq)

\* x / np.sqrt(q) for a finite x and q >= 0: x / 0 is nan for x = 0 and an
\* infinity of the sign of x otherwise
DivBySqrt(x, q) ==
    IF IsNaN(x) \/ IsNaN(q) THEN NaNRoot
    ELSE IF FloatEq(q, Float(0)) THEN (IF x.num = 0 THEN NaNRoot ELSE Root(Sign(x.num), Rat(1, 0)))
    ELSE Root(Sign(x.num), Over(FloatMul(x, x), q))

\* -r
NegRoot(r) == Root(-r.sign, r.sq)

----------------------------------------------------------------------------
(* numpy reductions of a float array *)

RECURSIVE FSum(_)
FSum(arr) == IF arr = <<>> THEN Float(0) ELSE FloatAdd(Head(arr), FSum(Tail(arr)))

\* np.mean: nan for the empty array
FMean(arr) == Over(FSum(arr), Float(Len(arr)))

RECURSIVE SumSquaredDeviations(_, _)
SumSquaredDeviations(arr, mean) ==
    IF arr = <<>> THEN Float(0)
    ELSE FloatAdd(FloatMul(Minus(Head(arr), mean), Minus(Head(arr), mean)),
                  SumSquaredDeviations(Tail(arr), mean))

\* np.var(arr, ddof=ddof): the sum of squared deviations over max(n - ddof, 0);
\* nan (0 / 0) for an array of at most ddof values
FVar(arr, ddof) ==
    LET n == Len(arr)
        rcount == IF n - ddof > 0 THEN n - ddof ELSE 0
    IN  Over(SumSquaredDeviations(arr, FMean(arr)), Float(rcount))

----------------------------------------------------------------------------
(* DASHStatistics.calculate_cohens_d *)

\* lines 61-64: the square of pooled_std
PooledVariance(g1, g2, ddof) ==
    LET n1 == Len(g1)
        n2 == Len(g2)
    IN  Over(FloatAdd(FloatMul(Float(n1 - 1), FVar(g1, ddof)), FloatMul(Float(n2 - 1), FVar(g2, ddof))),
             Float(n1 + n2 - 2))

\* the effect size on population variances (ddof = 0)
CalculateCohensDPopulation(g1, g2) ==
    LET pooled == PooledVariance(g1, g2, 0)
    IN  IF FloatEq(pooled, Float(0)) THEN ZeroRoot
        ELSE DivBySqrt(Minus(FMean(g1), FMean(g2)), pooled)

\* calculate_cohens_d(group1, group2)
CalculateCohensD(g1, g2) ==
    LET pooled == PooledVariance(g1, g2, 1)
    IN  IF FloatEq(pooled, Float(0)) THEN ZeroRoot
        ELSE DivBySqrt(Minus(FMean(g1), FMean(g2)), pooled)

----------------------------------------------------------------------------
(* DASHStatistics.compare_groups *)

\* the DepletionMetrics records handed to the statistics hold their six
\* scalars as floats (lines 192-197 of dash_analyzer.py): the square roots of
\* the analyzer's records are taken here, for tracks whose coefficient of
\* variation is a rational number
ISqrt(k) == CHOOSE r \in 0 .. k : r * r = k

RatSqrt(q) == LET n == Norm(q) IN Rat(ISqrt(n.num), ISqrt(n.den))

\* 1 / (1 + cv), or 0.0
UniformityValue(u) ==
    IF u.zero THEN Float(0)
    ELSE LET cv == RatSqrt(u.cv2) IN Norm(Rat(cv.den, cv.den + cv.num))

AsFloats(m) ==
    [grna_name |-> m.grna_name,
     target_region |-> m.target_region,
     mean_coverage |-> Norm(m.mean_coverage),
     median_coverage |-> Norm(m.median_coverage),
     depletion_efficiency |-> Norm(m.depletion_efficiency),
     coverage_uniformity |-> UniformityValue(m.coverage_uniformity),
     zero_coverage_fraction |-> Norm(m.zero_coverage_fraction),
     coefficient_of_variation |-> RatSqrt(m.coefficient_of_variation.sqrt_of)]

\* the records of three targets: a track [0, 0] and a track [0, 2] analysed
\* without a control, a track [1, 2] analysed against the control track [2, 2]
MetricChoices ==
    {AsFloats(DepletionMetricsOf(GRNATarget("gRNA1", "chr1", 0, 2), <<0, 0>>, NoneArray)),
     AsFloats(DepletionMetricsOf(GRNATarget("gRNA2", "chr1", 2, 4), <<0, 2>>, NoneArray)),
     AsFloats(DepletionMetricsOf(GRNATarget("gRNA3", "chr1", 4, 6), <<1, 2>>, Given(<<2, 2>>)))}

MetricLists == UNION {[1 .. n -> MetricChoices] : n \in 0 .. MaxGroup}

\* the metrics in alphabetical order of their attribute
MetricsToCompareAlphabetical ==
    <<[attr |-> "coefficient_of_variation", name |-> "Coefficient of Variation"],
      [attr |-> "coverage_uniformity", name |-> "Coverage Uniformity"],
      [attr |-> "depletion_efficiency", name |-> "Depletion Efficiency"],
      [attr |-> "zero_coverage_fraction", name |-> "Zero Coverage Fraction"]>>

\* lines 86-91
MetricsToCompare ==
    <<[attr |-> "depletion_efficiency", name |-> "Depletion Efficiency"],
      [attr |-> "coverage_uniformity", name |-> "Coverage Uniformity"],
      [attr |-> "zero_coverage_fraction", name |-> "Zero Coverage Fraction"],
      [attr |-> "coefficient_of_variation", name |-> "Coefficient of Variation"]>>

\* np.array([getattr(m, metric_attr) for m in group])
Column(group, attr) == [i \in 1 .. Len(group) |-> group[i][attr]]

\* a two-sided p-value 2 * sf(|t|, df), held by t squared and df: 1.0 for
\* t = 0, 0.0 for an infinite t, nan for a nan t
TwoSidedP(t, df) == [abs_t_sq |-> t.sq, df |-> IF IsNaNRoot(t) THEN 0 ELSE df]

\* the squares of the two-sided 5% critical values of Student's t for 1 to 8
\* degrees of freedom (12.706, 4.303, 3.182, 2.776, 2.571, 2.447, 2.365, 2.306)
TCriticalSquared ==
    <<Rat(161448, 1000), Rat(18513, 1000), Rat(10128, 1000), Rat(7709, 1000),
      Rat(6608, 1000), Rat(5987, 1000), Rat(5591, 1000), Rat(5318, 1000)>>

\* the significance levels handed to compare_groups: 0.0, the default 0.05, 1.0
Alphas == {Float(0), Rat(1, 20), Float(1)}

\* the test with <= in place of <
PValueAtMost(p, a) ==
    IF IsNaN(p.abs_t_sq) THEN FALSE
    ELSE IF FloatLt(a, Float(0)) THEN FALSE
    ELSE IF FloatEq(a, Float(0)) THEN IsInf(p.abs_t_sq)
    ELSE IF FloatLe(Float(1), a) THEN TRUE
    ELSE FloatLt(TCriticalSquared[p.df], p.abs_t_sq)

\* p_val < alpha: False for a nan p; p lies in [0, 1], is below 1 when t is
\* not 0 and is below 0.05 when |t| is above the critical value of its df
PValueLess(p, a) ==
    IF IsNaN(p.abs_t_sq) THEN FALSE
    ELSE IF FloatLe(a, Float(0)) THEN FALSE
    ELSE IF FloatLt(Float(1), a) THEN TRUE
    ELSE IF FloatEq(a, Float(1)) THEN ~FloatEq(p.abs_t_sq, Float(0))
    ELSE FloatLt(TCriticalSquared[p.df], p.abs_t_sq)

\* a test whose statistic is the absolute value |t|
TTestIndAbsolute(a, b) ==
    LET n1 == Len(a)
        n2 == Len(b)
    IN  IF n1 = 0 \/ n2 = 0 THEN [statistic |-> NaNRoot, pvalue |-> TwoSidedP(NaNRoot, 0)]
        ELSE LET denom2 == FloatMul(PooledVariance(a, b, 1),
                                    FloatAdd(Over(Float(1), Float(n1)), Over(Float(1), Float(n2))))
                 t == DivBySqrt(Minus(FMean(a), FMean(b)), denom2)
             IN  [statistic |-> Root(Abs(t.sign), t.sq), pvalue |-> TwoSidedP(t, n1 + n2 - 2)]

\* line 100: stats.ttest_ind(a, b), the two-sided equal-variance test:
\* t = (mean(a) - mean(b)) / sqrt(svar * (1/n1 + 1/n2)) with svar the sample
\* variances pooled over df = n1 + n2 - 2; nan for an empty sample
TTestInd(a, b) ==
    LET n1 == Len(a)
        n2 == Len(b)
    IN  IF n1 = 0 \/ n2 = 0 THEN [statistic |-> NaNRoot, pvalue |-> TwoSidedP(NaNRoot, 0)]
        ELSE LET denom2 == FloatMul(PooledVariance(a, b, 1),
                                    FloatAdd(Over(Float(1), Float(n1)), Over(Float(1), Float(n2))))
                 t == DivBySqrt(Minus(FMean(a), FMean(b)), denom2)
             IN  [statistic |-> t, pvalue |-> TwoSidedP(t, n1 + n2 - 2)]

\* lines 96-115: the ComparisonResult of one metric
CompareMetric(g1, g2, a, mc) ==
    LET group1_values == Column(g1, mc.attr)
        group2_values == Column(g2, mc.attr)
        test == TTestInd(group1_values, group2_values)
    IN  [metric_name |-> mc.name,
         group1_mean |-> FMean(group1_values),
         group2_mean |-> FMean(group2_values),
         group1_std |-> SqrtOf(FVar(group1_values, 1)),
         group2_std |-> SqrtOf(FVar(group2_values, 1)),
         t_statistic |-> test.statistic,
         p_value |-> test.pvalue,
         significant |-> PValueLess(test.pvalue, a),
         effect_size |-> CalculateCohensD(group1_values, group2_values)]

\* compare_groups(group1_metrics, group2_metrics, alpha)
CompareGroups(g1, g2, a) == [i \in 1 .. Len(MetricsToCompare) |-> CompareMetric(g1, g2, a, MetricsToCompare[i])]

----------------------------------------------------------------------------
(* DASHStatistics.correlation_analysis and generate_summary_statistics *)

RECURSIVE FInsert(_, _)
FInsert(x, s) ==
    IF s = <<>> THEN <<x>>
    ELSE IF FloatLt(x, Head(s)) THEN <<x>> \o s
    ELSE <<Head(s)>> \o FInsert(x, Tail(s))

RECURSIVE FSort(_)
FSort(s) == IF s = <<>> THEN <<>> ELSE FInsert(Head(s), FSort(Tail(s)))

\* np.median of a float array; nan for the empty array
FMedian(arr) ==
    LET sorted == FSort(arr)
        n == Len(arr)
    IN  IF n = 0 THEN NaN
        ELSE IF n % 2 = 1 THEN sorted[(n + 1) \div 2]
        ELSE Over(FloatAdd(sorted[n \div 2], sorted[n \div 2 + 1]), Float(2))

\* np.percentile(arr, q), linear interpolation between the order statistics
\* around the position (n - 1) * q / 100
Percentile(arr, q) ==
    LET sorted == FSort(arr)
        n == Len(arr)
        lo == ((n - 1) * q) \div 100
        frac == Rat(((n - 1) * q) % 100, 100)
    IN  IF n = 0 THEN NaN
        ELSE IF frac.num = 0 THEN sorted[lo + 1]
        ELSE FloatAdd(sorted[lo + 1], FloatMul(frac, Minus(sorted[lo + 2], sorted[lo + 1])))

\* lines 262-270: the statistics of one column; np.min and np.max have no
\* value on the empty array
SummaryOf(values) ==
    LET sorted == FSort(values)
    IN  [mean |-> FMean(values),
         median |-> FMedian(values),
         std |-> SqrtOf(FVar(values, 0)),
         min |-> sorted[1],
         max |-> sorted[Len(sorted)],
         q25 |-> Percentile(values, 25),
         q75 |-> Percentile(values, 75)]

\* lines 250-257
SummaryColumns ==
    <<[attr |-> "depletion_efficiency", name |-> "Depletion Efficiency"],
      [attr |-> "coverage_uniformity", name |-> "Coverage Uniformity"],
      [attr |-> "zero_coverage_fraction", name |-> "Zero Coverage Fraction"],
      [attr |-> "coefficient_of_variation", name |-> "Coefficient of Variation"],
      [attr |-> "mean_coverage", name |-> "Mean Coverage"],
      [attr |-> "median_coverage", name |-> "Median Coverage"]>>

\* what a call gave: the exception it raised ("" for none) and its value
StatOutcome(call, exc, value) == [call |-> call, raised |-> exc, value |-> value]

\* generate_summary_statistics(metrics_list): on an empty list the first
\* column's np.mean, np.median and np.std are nan and its np.min (line 266)
\* raises ValueError
GenerateSummaryStatistics(ml) ==
    IF Len(ml) = 0 THEN StatOutcome("generate_summary_statistics", "ValueError", <<>>)
    ELSE StatOutcome("generate_summary_statistics", "",
                     [i \in 1 .. Len(SummaryColumns) |->
                         [metric |-> SummaryColumns[i].name,
                          stats |-> SummaryOf(Column(ml, SummaryColumns[i].attr))]])

\* lines 226-232
CorrelationColumns ==
    <<[attr |-> "depletion_efficiency", name |-> "Depletion Efficiency"],
      [attr |-> "coverage_uniformity", name |-> "Coverage Uniformity"],
      [attr |-> "zero_coverage_fraction", name |-> "Zero Coverage Fraction"],
      [attr |-> "coefficient_of_variation", name |-> "Coefficient of Variation"],
      [attr |-> "mean_coverage", name |-> "Mean Coverage"]>>

RECURSIVE CrossDeviations(_, _, _, _)
CrossDeviations(x, y, mx, my) ==
    IF x = <<>> THEN Float(0)
    ELSE FloatAdd(FloatMul(Minus(Head(x), mx), Minus(Head(y), my)),
                  CrossDeviations(Tail(x), Tail(y), mx, my))

\* the Pearson coefficient of two columns: the summed cross deviations over
\* the root of the product of the summed squared deviations, nan (0 / 0) for
\* a single row or a constant column
Pearson(x, y) ==
    LET mx == FMean(x)
        my == FMean(y)
    IN  DivBySqrt(CrossDeviations(x, y, mx, my),
                  FloatMul(SumSquaredDeviations(x, mx), SumSquaredDeviations(y, my)))

CorrelationMatrix(ml) ==
    [i \in 1 .. Len(CorrelationColumns) |->
        [j \in 1 .. Len(CorrelationColumns) |->
            Pearson(Column(ml, CorrelationColumns[i].attr), Column(ml, CorrelationColumns[j].attr))]]

\* correlation_analysis(metrics_list): line 235, df.corr(). The frame of an
\* empty list has no rows and columns of dtype object; by the pandas version
\* corr() drops them and gives a matrix without rows or columns, or keeps
\* them and gives the matrix filled with nan
CorrelationAnalysis(ml) ==
    IF Len(ml) = 0
    THEN {StatOutcome("correlation_analysis", "", <<>>),
          StatOutcome("correlation_analysis", "",
                      [i \in 1 .. Len(CorrelationColumns) |-> [j \in 1 .. Len(CorrelationColumns) |-> NaNRoot]])}
    ELSE {StatOutcome("correlation_analysis", "", CorrelationMatrix(ml))}

----------------------------------------------------------------------------
(* SpecStatistics: one call of a DASHStatistics function *)

\* the values of the arrays handed to calculate_cohens_d
SampleValues == {Float(0), Rat(1, 2), Float(1)}

Samples == UNION {[1 .. n -> SampleValues] : n \in 0 .. MaxSample}

InitStatistics ==
    /\ pc = "ready"
    /\ IdleOverlap
    /\ IdleCount
    /\ IdleStats
    /\ IdleTools
    /\ IdleCoverage
    /\ IdleBatch
    /\ IdleMetrics

\* DASHStatistics.calculate_cohens_d(a, b)
CallCohensD(a, b) ==
    /\ sample1' = a
    /\ sample2' = b
    /\ cohens_d' = CalculateCohensD(a, b)
    /\ pc' = "cohens_d"
    /\ UNCHANGED <<group1, group2, alpha, comparison, metrics_list, stat_result, outsideStats>>

CohensDCall ==
    /\ pc = "ready"
    /\ \E a \in Samples, b \in Samples : CallCohensD(a, b)

\* DASHStatistics.compare_groups(g1, g2, a)
CallCompareGroups(g1, g2, a) ==
    /\ group1' = g1
    /\ group2' = g2
    /\ alpha' = a
    /\ comparison' = CompareGroups(g1, g2, a)
    /\ pc' = "compared"
    /\ UNCHANGED <<sample1, sample2, cohens_d, metrics_list, stat_result, outsideStats>>

CompareGroupsCall ==
    /\ pc = "ready"
    /\ \E g1 \in MetricLists, g2 \in MetricLists, a \in Alphas : CallCompareGroups(g1, g2, a)

\* DASHStatistics.correlation_analysis(ml)
CallCorrelationAnalysis(ml, out) ==
    /\ metrics_list' = ml
    /\ stat_result' = out
    /\ pc' = IF out.raised # "" THEN out.raised ELSE "correlated"
    /\ UNCHANGED <<sample1, sample2, cohens_d, group1, group2, alpha, comparison, outsideStats>>

CorrelationCall ==
    /\ pc = "ready"
    /\ \E ml \in MetricLists : \E out \in CorrelationAnalysis(ml) : CallCorrelationAnalysis(ml, out)

\* DASHStatistics.generate_summary_statistics(ml)
CallGenerateSummaryStatistics(ml) ==
    /\ metrics_list' = ml
    /\ stat_result' = GenerateSummaryStatistics(ml)
    /\ pc' = IF GenerateSummaryStatistics(ml).raised # "" THEN GenerateSummaryStatistics(ml).raised ELSE "summarised"
    /\ UNCHANGED <<sample1, sample2, cohens_d, group1, group2, alpha, comparison, outsideStats>>

SummaryCall ==
    /\ pc = "ready"
    /\ \E ml \in MetricLists : CallGenerateSummaryStatistics(ml)

NextStatistics ==
    \/ CohensDCall
    \/ CompareGroupsCall
    \/ CorrelationCall
    \/ SummaryCall

SpecStatistics == InitStatistics /\ [][NextStatistics]_vars

\* the sum of the squared deviations of both samples from their own means,
\* over n1 + n2 - 2
PooledSampleVariance(a, b) ==
    Over(FloatAdd(SumSquaredDeviations(a, FMean(a)), SumSquaredDeviations(b, FMean(b))),
         Float(Len(a) + Len(b) - 2))

\* C17: for groups of at least 2 values calculate_cohens_d(a, b) is
\* (mean(a) - mean(b)) / pooled_std, pooled_std^2 being the sample variances
\* (divisor N - 1) pooled over n_a + n_b - 2; it is 0 when pooled_std is 0,
\* and calculate_cohens_d(a, a) is 0.
C17_CohensD ==
    (pc = "cohens_d" /\ Len(sample1) >= 2 /\ Len(sample2) >= 2) =>
        LET diff == Minus(FMean(sample1), FMean(sample2))
            pooled == PooledSampleVariance(sample1, sample2)
        IN  /\ ~IsNaNRoot(cohens_d) /\ ~IsInf(cohens_d.sq)
            /\ FloatEq(pooled, Float(0)) => cohens_d = ZeroRoot
            /\ ~FloatEq(pooled, Float(0)) =>
                  /\ cohens_d.sign = Sign(diff.num)
                  /\ FloatEq(FloatMul(cohens_d.sq, pooled), FloatMul(diff, diff))
            /\ sample1 = sample2 => (cohens_d.sign = 0 /\ FloatEq(cohens_d.sq, Float(0)))

\* d = 3: the means 1 and 1/4 differ by 3/4 and the pooled standard deviation
\* is 1/4
C17_Witness ==
    /\ pc = "cohens_d"
    /\ sample1 = <<Float(1), Float(1)>>
    /\ sample2 = <<Float(0), Rat(1, 2)>>
    /\ cohens_d = Root(1, Float(9))

----------------------------------------------------------------------------
(* compare_groups *)

\* C18: compare_groups returns four ComparisonResults, in the order
\* depletion efficiency, coverage uniformity, zero-coverage fraction,
\* coefficient of variation, whatever the metrics of the two groups and
\* their order, each computed from its own attribute; a result is flagged
\* significant exactly when its p-value is strictly below alpha.
C18_FourResultsInFixedOrder ==
    pc = "compared" =>
        /\ Len(comparison) = 4
        /\ comparison[1].metric_name = "Depletion Efficiency"
        /\ comparison[2].metric_name = "Coverage Uniformity"
        /\ comparison[3].metric_name = "Zero Coverage Fraction"
        /\ comparison[4].metric_name = "Coefficient of Variation"
        /\ comparison[1].group1_mean = FMean([i \in 1 .. Len(group1) |-> group1[i].depletion_efficiency])
        /\ comparison[2].group1_mean = FMean([i \in 1 .. Len(group1) |-> group1[i].coverage_uniformity])
        /\ comparison[3].group1_mean = FMean([i \in 1 .. Len(group1) |-> group1[i].zero_coverage_fraction])
        /\ comparison[4].group1_mean = FMean([i \in 1 .. Len(group1) |-> group1[i].coefficient_of_variation])
        /\ \A i \in 1 .. 4 :
              LET p == comparison[i].p_value
              IN  /\ comparison[i].significant <=> PValueLess(p, alpha)
                  /\ IsNaN(p.abs_t_sq) => ~comparison[i].significant
                  /\ FloatEq(alpha, Float(0)) => ~comparison[i].significant
                  /\ (FloatEq(alpha, Float(1)) /\ ~IsNaN(p.abs_t_sq)) =>
                        (comparison[i].significant <=> ~FloatEq(p.abs_t_sq, Float(0)))

\* at alpha = 0.05 one metric of the comparison is significant and another,
\* with a finite p-value, is not
C18_Witness ==
    /\ pc = "compared"
    /\ alpha = Rat(1, 20)
    /\ Len(group1) >= 2
    /\ Len(group2) >= 2
    /\ \E i \in 1 .. 4 : comparison[i].significant
    /\ \E i \in 1 .. 4 : ~comparison[i].significant /\ ~IsNaN(comparison[i].p_value.abs_t_sq)

\* C19: swapping the two groups handed to compare_groups negates the
\* t-statistic and the effect size of every metric, swaps the group means
\* and standard deviations, and leaves |t|, the p-value and the
\* significance flag as they were.
C19_SwappedGroups ==
    pc = "compared" =>
        \A i \in 1 .. Len(comparison) :
            LET c == comparison[i]
            IN  CompareMetric(group2, group1, alpha, MetricsToCompare[i]) =
                    [metric_name |-> c.metric_name,
                     group1_mean |-> c.group2_mean,
                     group2_mean |-> c.group1_mean,
                     group1_std |-> c.group2_std,
                     group2_std |-> c.group1_std,
                     t_statistic |-> Root(-c.t_statistic.sign, c.t_statistic.sq),
                     p_value |-> c.p_value,
                     significant |-> c.significant,
                     effect_size |-> Root(-c.effect_size.sign, c.effect_size.sq)]

\* a comparison of two different groups with a positive t-statistic and a
\* positive effect size on the depletion efficiency, significant at 0.05
C19_Witness ==
    /\ pc = "compared"
    /\ alpha = Rat(1, 20)
    /\ group1 # group2
    /\ comparison[1].t_statistic.sign = 1
    /\ comparison[1].effect_size.sign = 1
    /\ comparison[1].significant

----------------------------------------------------------------------------
(* The statistics of an empty collection *)

\* C20: correlation_analysis and generate_summary_statistics on an empty
\* metrics list, and compare_groups on a group of zero targets, fail with an
\* EmptyInputError: none of them returns a result.
C20_EmptyInputError ==
    /\ (pc \in {"correlated", "summarised", "ValueError"} /\ metrics_list = <<>>) =>
          stat_result.raised = "EmptyInputError"
    /\ pc = "compared" => (group1 # <<>> /\ group2 # <<>>)

----------------------------------------------------------------------------
(* dash_statistics.py: rank_grnas and identify_outliers                    *)

\* the records of MetricChoices, a track [2, 0] analysed without a control
\* (the scalars of gRNA2 under another name) and a track [1, 1] analysed
\* against the control track [2, 2] (efficiency 1/2, uniformity 1)
RankChoices ==
    MetricChoices \cup
    {AsFloats(DepletionMetricsOf(GRNATarget("gRNA4", "chr1", 6, 8), <<2, 0>>, NoneArray)),
     AsFloats(DepletionMetricsOf(GRNATarget("gRNA5", "chr1", 8, 10), <<1, 1>>, Given(<<2, 2>>)))}

RankLists == UNION {[1 .. n -> RankChoices] : n \in 0 .. MaxRank}

\* lines 134-139
DefaultWeights ==
    [given |-> TRUE, depletion |-> Rat(2, 5), uniformity |-> Rat(3, 10),
     zero_coverage |-> Rat(1, 5), cv |-> Rat(1, 10)]

\* the weights handed to rank_grnas: None, equal weights, depletion alone
WeightChoices ==
    {NoWeights,
     [given |-> TRUE, depletion |-> Rat(1, 4), uniformity |-> Rat(1, 4),
      zero_coverage |-> Rat(1, 4), cv |-> Rat(1, 4)],
     [given |-> TRUE, depletion |-> Float(1), uniformity |-> Float(0),
      zero_coverage |-> Float(0), cv |-> Float(0)]}

\* lines 133-139
WeightsOrDefault(w) == IF w.given THEN w ELSE DefaultWeights

\* line 148
CvScore(m) == Over(Float(1), FloatAdd(Float(1), m.coefficient_of_variation))

\* the composite with 1 - zero_coverage_fraction in place of the fraction
CompositeScoreInvertedZero(m, w) ==
    FloatAdd(FloatAdd(FloatAdd(FloatMul(w.depletion, m.depletion_efficiency),
                               FloatMul(w.uniformity, m.coverage_uniformity)),
                      FloatMul(w.zero_coverage, Minus(Float(1), m.zero_coverage_fraction))),
             FloatMul(w.cv, CvScore(m)))

\* lines 145-156
CompositeScore(m, w) ==
    FloatAdd(FloatAdd(FloatAdd(FloatMul(w.depletion, m.depletion_efficiency),
                               FloatMul(w.uniformity, m.coverage_uniformity)),
                      FloatMul(w.zero_coverage, m.zero_coverage_fraction)),
             FloatMul(w.cv, CvScore(m)))

\* lines 158-165
ScoreRow(m, w) ==
    [gRNA_name |-> m.grna_name,
     composite_score |-> CompositeScore(m, w),
     depletion_efficiency |-> m.depletion_efficiency,
     coverage_uniformity |-> m.coverage_uniformity,
     zero_coverage_fraction |-> m.zero_coverage_fraction,
     coefficient_of_variation |-> m.coefficient_of_variation]

\* lines 141-165
Scores(ml, w) == [i \in 1 .. Len(ml) |-> ScoreRow(ml[i], w)]

Indexers(n) == {p \in [1 .. n -> 1 .. n] : \A i, j \in 1 .. n : p[i] = p[j] => i = j}

\* p puts the rows in non-increasing order of composite score
SortsDescending(rows, p) ==
    \A i \in 1 .. Len(rows) - 1 : FloatLe(rows[p[i + 1]].composite_score, rows[p[i]].composite_score)

\* p keeps rows of equal score in their order in the frame
KeepsTies(rows, p) ==
    \A i \in 1 .. Len(rows) - 1 :
        FloatEq(rows[p[i + 1]].composite_score, rows[p[i]].composite_score) => p[i] < p[i + 1]

\* line 168, df.sort_values('composite_score', ascending=False): the sort is
\* numpy's argsort of kind 'quicksort', pandas' default, which no kind
\* argument replaces here; it is not a stable sort, so rows of equal score
\* come out in any order
SortIndexers(rows) == {p \in Indexers(Len(rows)) : SortsDescending(rows, p)}

\* lines 168-172: reset_index, the rank column, the selected columns
RankedFrame(rows, p) ==
    [i \in 1 .. Len(rows) |->
        [rank |-> i,
         gRNA_name |-> rows[p[i]].gRNA_name,
         composite_score |-> rows[p[i]].composite_score,
         depletion_efficiency |-> rows[p[i]].depletion_efficiency,
         coverage_uniformity |-> rows[p[i]].coverage_uniformity,
         zero_coverage_fraction |-> rows[p[i]].zero_coverage_fraction,
         coefficient_of_variation |-> rows[p[i]].coefficient_of_variation]]

\* rank_grnas(metrics_list, weights): the outcomes of a call. The frame of
\* an empty list has no columns and sort_values('composite_score') raises
\* KeyError (line 168)
RankGrnas(ml, w) ==
    IF Len(ml) = 0 THEN {StatOutcome("rank_grnas", "KeyError", <<>>)}
    ELSE LET rows == Scores(ml, WeightsOrDefault(w))
         IN  {StatOutcome("rank_grnas", "", RankedFrame(rows, p)) : p \in SortIndexers(rows)}

\* z > n for z = sign * sqrt(sq) and a finite n
RootGreater(z, n) ==
    IF IsNaNRoot(z) \/ IsNaN(n) THEN FALSE
    ELSE IF n.num < 0 THEN z.sign >= 0 \/ FloatLt(z.sq, FloatMul(n, n))
    ELSE z.sign > 0 /\ FloatLt(FloatMul(n, n), z.sq)

\* z < n
RootLess(z, n) == RootGreater(NegRoot(z), Minus(Float(0), n))

\* lines 199-200: (x - mean) / std if std > 0 else 0, std the root of var
ZScore(x, mean, var) ==
    IF FloatLt(Float(0), var) THEN DivBySqrt(Minus(x, mean), var) ELSE ZeroRoot

\* the thresholds handed to identify_outliers; 2.0 is the default
NStds == {Float(-1), Float(0), Rat(1, 2), Float(1), Float(2)}

\* line 203 with `or` in place of `and`
IsHighPerformerEither(dz, uz, n) == RootGreater(dz, n) \/ RootGreater(uz, n)

\* line 203
IsHighPerformer(dz, uz, n) == RootGreater(dz, n) /\ RootGreater(uz, n)

\* line 207 with `and` in place of `or`
IsLowPerformerBoth(dz, uz, n) ==
    RootLess(dz, Minus(Float(0), n)) /\ RootLess(uz, Minus(Float(0), n))

\* line 207
IsLowPerformer(dz, uz, n) ==
    RootLess(dz, Minus(Float(0), n)) \/ RootLess(uz, Minus(Float(0), n))

\* the names of the records of ml that satisfy keep, in the order of ml
RECURSIVE NamesWhere(_, _, _)
NamesWhere(ml, i, keep) ==
    IF i > Len(ml) THEN <<>>
    ELSE IF keep[i] THEN <<ml[i].grna_name>> \o NamesWhere(ml, i + 1, keep)
    ELSE NamesWhere(ml, i + 1, keep)

\* identify_outliers(metrics_list, n_std), lines 187-213; np.std is the root
\* of the population variance (ddof of 0)
IdentifyOutliers(ml, n) ==
    LET depletion_values == Column(ml, "depletion_efficiency")
        uniformity_values == Column(ml, "coverage_uniformity")
        depletion_mean == FMean(depletion_values)
        depletion_var == FVar(depletion_values, 0)
        uniformity_mean == FMean(uniformity_values)
        uniformity_var == FVar(uniformity_values, 0)
        depletion_z == [i \in 1 .. Len(ml) |-> ZScore(depletion_values[i], depletion_mean, depletion_var)]
        uniformity_z == [i \in 1 .. Len(ml) |-> ZScore(uniformity_values[i], uniformity_mean, uniformity_var)]
    IN  [high_performers |->
             NamesWhere(ml, 1, [i \in 1 .. Len(ml) |-> IsHighPerformer(depletion_z[i], uniformity_z[i], n)]),
         low_performers |->
             NamesWhere(ml, 1, [i \in 1 .. Len(ml) |-> IsLowPerformer(depletion_z[i], uniformity_z[i], n)])]

----------------------------------------------------------------------------
(* SpecRanking: one call of rank_grnas or identify_outliers *)

InitRanking ==
    /\ pc = "ready"
    /\ IdleOverlap
    /\ IdleCount
    /\ IdleStats
    /\ IdleTools
    /\ IdleCoverage
    /\ IdleBatch
    /\ IdleMetrics

outsideRank == <<overlapVars, countVars, coverageVars, metricsVars, batchVars,
                 sample1, sample2, cohens_d, group1, group2, alpha, comparison, stat_result,
                 handleVars, sessionVars, helperVars, loaderVars>>

\* DASHStatistics.rank_grnas(ml, w)
CallRankGrnas(ml, w, out) ==
    /\ metrics_list' = ml
    /\ weights' = w
    /\ ranking' = out
    /\ pc' = IF out.raised # "" THEN out.raised ELSE "ranked"
    /\ UNCHANGED <<n_std, outliers, reordered, reranking, outsideRank>>

RankCall ==
    /\ pc = "ready"
    /\ \E ml \in RankLists, w \in WeightChoices : \E out \in RankGrnas(ml, w) : CallRankGrnas(ml, w, out)

\* DASHStatistics.identify_outliers(ml, n)
CallIdentifyOutliers(ml, n) ==
    /\ metrics_list' = ml
    /\ n_std' = n
    /\ outliers' = IdentifyOutliers(ml, n)
    /\ pc' = "outliers"
    /\ UNCHANGED <<weights, ranking, reordered, reranking, outsideRank>>

OutliersCall ==
    /\ pc = "ready"
    /\ \E ml \in RankLists, n \in NStds : CallIdentifyOutliers(ml, n)

\* the metrics of ml in the order of the rows of a frame rank_grnas gave for ml
InOrderOf(ml, frame) ==
    LET p == CHOOSE q \in Indexers(Len(ml)) :
                 \A i \in 1 .. Len(ml) :
                     /\ ml[q[i]].grna_name = frame[i].gRNA_name
                     /\ ml[q[i]].depletion_efficiency = frame[i].depletion_efficiency
                     /\ ml[q[i]].coverage_uniformity = frame[i].coverage_uniformity
    IN  [i \in 1 .. Len(ml) |-> ml[p[i]]]

\* DASHStatistics.rank_grnas(ml2, w), ml2 the metrics in the order of the
\* frame the first call returned, w the weights of the first call
CallRankGrnasAgain(ml2, out) ==
    /\ reordered' = ml2
    /\ reranking' = out
    /\ pc' = "reranked"
    /\ UNCHANGED <<metrics_list, weights, ranking, n_std, outliers, outsideRank>>

RankAgainCall ==
    /\ pc = "ranked"
    /\ \E out \in RankGrnas(InOrderOf(metrics_list, ranking.value), weights) :
           CallRankGrnasAgain(InOrderOf(metrics_list, ranking.value), out)

NextRanking ==
    \/ RankCall
    \/ OutliersCall
    \/ RankAgainCall

SpecRanking == InitRanking /\ [][NextRanking]_vars

\* 0 <= x <= 1
InUnitInterval(x) == FloatLe(Float(0), x) /\ FloatLe(x, Float(1))

\* C21: with no weights given, each row's composite score is
\* 0.4 * depletion_efficiency + 0.3 * coverage_uniformity
\* + 0.2 * zero_coverage_fraction + 0.1 * (1 / (1 + cv)), the zero-coverage
\* fraction entering as it is; each of the four components lies in [0, 1]
\* and so does the composite score.
C21_CompositeScore ==
    (pc = "ranked" /\ ~weights.given) =>
        \A i \in 1 .. Len(ranking.value) :
            LET row == ranking.value[i]
                cv_score == Over(Float(1), FloatAdd(Float(1), row.coefficient_of_variation))
            IN  /\ FloatEq(row.composite_score,
                           FloatAdd(FloatAdd(FloatMul(Rat(2, 5), row.depletion_efficiency),
                                             FloatMul(Rat(3, 10), row.coverage_uniformity)),
                                    FloatAdd(FloatMul(Rat(1, 5), row.zero_coverage_fraction),
                                             FloatMul(Rat(1, 10), cv_score))))
                /\ InUnitInterval(row.depletion_efficiency)
                /\ InUnitInterval(row.coverage_uniformity)
                /\ InUnitInterval(row.zero_coverage_fraction)
                /\ InUnitInterval(cv_score)
                /\ InUnitInterval(row.composite_score)
                /\ \E k \in 1 .. Len(metrics_list) :
                       /\ metrics_list[k].grna_name = row.gRNA_name
                       /\ metrics_list[k].zero_coverage_fraction = row.zero_coverage_fraction

\* a default-weight ranking of two targets whose zero-coverage fractions
\* differ and are neither 0 nor 1 for the second
C21_Witness ==
    /\ pc = "ranked"
    /\ ~weights.given
    /\ Len(ranking.value) = 2
    /\ ranking.value[1].gRNA_name = "gRNA1"
    /\ ranking.value[1].composite_score = Rat(7, 10)
    /\ ranking.value[2].gRNA_name = "gRNA2"
    /\ ranking.value[2].zero_coverage_fraction = Rat(1, 2)
    /\ ranking.value[2].composite_score = Rat(1, 2)

\* the frame is the rows of the scores taken by an indexer that sorts them
\* in non-increasing order and keeps rows of equal score in input order
IsStableRanking(frame, ml, w) ==
    LET rows == Scores(ml, WeightsOrDefault(w))
    IN  \E p \in Indexers(Len(ml)) :
            /\ SortsDescending(rows, p)
            /\ KeepsTies(rows, p)
            /\ frame = RankedFrame(rows, p)

\* C22: the frame rank_grnas returns is ordered by non-increasing composite
\* score, rows of equal score keep their input order, the rank column is
\* 1 .. n in output order and each input target appears exactly once.
C22_StableDescendingRanking ==
    pc = "ranked" =>
        /\ Len(ranking.value) = Len(metrics_list)
        /\ \A i \in 1 .. Len(ranking.value) : ranking.value[i].rank = i
        /\ \A i \in 1 .. Len(ranking.value) - 1 :
               FloatLe(ranking.value[i + 1].composite_score, ranking.value[i].composite_score)
        /\ IsStableRanking(ranking.value, metrics_list, weights)

\* the part of C22 that does not depend on the order of equal scores: the
\* frame is a permutation of the input's rows in non-increasing order of
\* score with ranks 1 .. n
C22_DescendingPermutation ==
    pc = "ranked" =>
        /\ Len(ranking.value) = Len(metrics_list)
        /\ \A i \in 1 .. Len(ranking.value) : ranking.value[i].rank = i
        /\ \A i \in 1 .. Len(ranking.value) - 1 :
               FloatLe(ranking.value[i + 1].composite_score, ranking.value[i].composite_score)
        /\ \E p \in Indexers(Len(metrics_list)) :
               \A i \in 1 .. Len(metrics_list) : ranking.value[i].gRNA_name = metrics_list[p[i]].grna_name

\* C23: handing rank_grnas the metrics in the order of a frame it returned,
\* with the same weights, returns the same order and the same ranks, rows of
\* equal score included.
C23_RerankingIdempotent ==
    pc = "reranked" => reranking.value = ranking.value

\* the z-score of col[i] exceeds n: the z-score is the deviation of col[i]
\* from the mean of col over the population standard deviation of col (the
\* root of the summed squared deviations over the number of values), and 0
\* when that deviation is 0; the comparison is made on the squares
ZScoreAbove(col, i, n) ==
    LET mean == FMean(col)
        ss == SumSquaredDeviations(col, mean)
        d == Minus(col[i], mean)
        scaled == FloatMul(FloatMul(d, d), Float(Len(col)))
        bound == FloatMul(FloatMul(n, n), ss)
    IN  IF FloatEq(ss, Float(0)) THEN FloatLt(n, Float(0))
        ELSE IF FloatLt(n, Float(0)) THEN FloatLe(Float(0), d) \/ FloatLt(scaled, bound)
        ELSE FloatLt(Float(0), d) /\ FloatLt(bound, scaled)

\* the z-score of col[i] is below -n
ZScoreBelowMinus(col, i, n) ==
    LET mean == FMean(col)
        ss == SumSquaredDeviations(col, mean)
        d == Minus(col[i], mean)
        scaled == FloatMul(FloatMul(d, d), Float(Len(col)))
        bound == FloatMul(FloatMul(n, n), ss)
    IN  IF FloatEq(ss, Float(0)) THEN FloatLt(n, Float(0))
        ELSE IF FloatLt(n, Float(0)) THEN FloatLe(d, Float(0)) \/ FloatLt(scaled, bound)
        ELSE FloatLt(d, Float(0)) /\ FloatLt(bound, scaled)

\* every value of col is the same
ZeroStd(col) == \A i, j \in 1 .. Len(col) : col[i] = col[j]

\* names holds the names of the records of ml at the indices of idx, in the
\* order of ml
NamesOfInOrder(names, ml, idx) ==
    /\ Len(names) = Cardinality(idx)
    /\ \E f \in [1 .. Len(names) -> idx] :
           /\ \A j, k \in 1 .. Len(names) : j < k => f[j] < f[k]
           /\ \A k \in 1 .. Len(names) : names[k] = ml[f[k]].grna_name

\* C24: identify_outliers lists a target as a high performer iff its z-scores
\* of depletion_efficiency and of coverage_uniformity both exceed n_std and
\* as a low performer iff either is below -n_std, the z-scores taken with
\* the population mean and standard deviation and 0 for a metric whose
\* standard deviation is 0; for n_std >= 0 such a metric flags no target as
\* low and leaves no target a high performer; both lists are in input order.
C24_OutlierLists ==
    pc = "outliers" =>
        LET dep == [i \in 1 .. Len(metrics_list) |-> metrics_list[i].depletion_efficiency]
            uni == [i \in 1 .. Len(metrics_list) |-> metrics_list[i].coverage_uniformity]
            high == {i \in 1 .. Len(metrics_list) :
                        ZScoreAbove(dep, i, n_std) /\ ZScoreAbove(uni, i, n_std)}
            low == {i \in 1 .. Len(metrics_list) :
                       ZScoreBelowMinus(dep, i, n_std) \/ ZScoreBelowMinus(uni, i, n_std)}
        IN  /\ NamesOfInOrder(outliers.high_performers, metrics_list, high)
            /\ NamesOfInOrder(outliers.low_performers, metrics_list, low)
            /\ (FloatLe(Float(0), n_std) /\ (ZeroStd(dep) \/ ZeroStd(uni))) =>
                   outliers.high_performers = <<>>
            /\ (FloatLe(Float(0), n_std) /\ ZeroStd(dep)) =>
                   NamesOfInOrder(outliers.low_performers, metrics_list,
                                  {i \in 1 .. Len(metrics_list) : ZScoreBelowMinus(uni, i, n_std)})
            /\ (FloatLe(Float(0), n_std) /\ ZeroStd(uni)) =>
                   NamesOfInOrder(outliers.low_performers, metrics_list,
                                  {i \in 1 .. Len(metrics_list) : ZScoreBelowMinus(dep, i, n_std)})

\* gRNA5 exceeds gRNA3 in both metrics: with n_std of 1/2 it is the one high
\* performer and gRNA3 the one low performer
C24_Witness ==
    /\ pc = "outliers"
    /\ n_std = Rat(1, 2)
    /\ Len(metrics_list) = 2
    /\ metrics_list[1].grna_name = "gRNA3"
    /\ metrics_list[2].grna_name = "gRNA5"
    /\ outliers.high_performers = <<"gRNA5">>
    /\ outliers.low_performers = <<"gRNA3">>

----------------------------------------------------------------------------
(* dash_cli.py compare_command: the two `with DASHAnalyzer(...)` blocks    *)

\* the handles the two blocks open: the treated and the control file of each
Handles == {"bam1", "control1", "bam2", "control2"}

BamOf(b) == IF b = 1 THEN "bam1" ELSE "bam2"

ControlOf(b) == IF b = 1 THEN "control1" ELSE "control2"

\* args.control1 and args.control2 are given or None; any of the files may
\* be one pysam.AlignmentFile cannot open
CliArgs == [control1 : BOOLEAN, control2 : BOOLEAN, unreadable : SUBSET Handles]

ControlGiven(a, b) == IF b = 1 THEN a.control1 ELSE a.control2

Unopened == [state |-> "unopened", closes |-> 0]

\* pysam.AlignmentFile(path, "rb")
Open(h, f) == [h EXCEPT ![f] = [state |-> "open", closes |-> 0]]

\* handle.close()
Close(h, f) == [h EXCEPT ![f] = [state |-> "closed", closes |-> h[f].closes + 1]]

\* lines 84-85 and 86-87: a handle the analyzer holds is closed
CloseIfHeld(h, f) == IF f # None THEN Close(h, f) ELSE h

\* __exit__, lines 82-87
Exit(h, a) == CloseIfHeld(CloseIfHeld(h, a.bam), a.control_bam)

InitHandles ==
    /\ pc = "compare_command"
    /\ cli_args \in CliArgs
    /\ handles = [f \in Handles |-> Unopened]
    /\ analyzer = NoAnalyzer
    /\ raised = ""
    /\ IdleOverlap
    /\ IdleCount
    /\ IdleStats
    /\ IdleRank
    /\ IdleSession
    /\ IdleHelper
    /\ IdleLoader
    /\ IdleCoverage
    /\ IdleBatch
    /\ IdleMetrics

outsideHandles == <<overlapVars, countVars, coverageVars, metricsVars, batchVars, statVars,
                    rankVars, sessionVars, helperVars, loaderVars>>

\* DASHAnalyzer.__init__, lines 62-73, for the block of line 112 or line 115
Construct ==
    /\ pc \in {"compare_command", "between"}
    /\ analyzer' = [block |-> IF pc = "compare_command" THEN 1 ELSE 2, bam |-> None, control_bam |-> None]
    /\ pc' = "enter"
    /\ UNCHANGED <<cli_args, handles, raised, outsideHandles>>

\* __enter__, lines 75-80: an open that fails raises out of __enter__, and
\* the `with` statement calls __exit__ only once __enter__ has returned
Enter ==
    /\ pc = "enter"
    /\ LET bam == BamOf(analyzer.block)
           control == ControlOf(analyzer.block)
       IN  IF bam \in cli_args.unreadable
           THEN /\ raised' = "OSError"
                /\ pc' = "raised"
                /\ UNCHANGED <<handles, analyzer>>
           ELSE IF ~ControlGiven(cli_args, analyzer.block)
           THEN /\ handles' = Open(handles, bam)
                /\ analyzer' = [analyzer EXCEPT !.bam = bam]
                /\ pc' = "body"
                /\ UNCHANGED raised
           ELSE IF control \in cli_args.unreadable
           THEN /\ handles' = Open(handles, bam)
                /\ analyzer' = [analyzer EXCEPT !.bam = bam]
                /\ raised' = "OSError"
                /\ pc' = "raised"
           ELSE /\ handles' = Open(Open(handles, bam), control)
                /\ analyzer' = [analyzer EXCEPT !.bam = bam, !.control_bam = control]
                /\ pc' = "body"
                /\ UNCHANGED raised
    /\ UNCHANGED <<cli_args, outsideHandles>>

\* the body, line 113 or 116: analyze_multiple_targets returns or raises
Body ==
    /\ pc = "body"
    /\ \E e \in {"", "ValueError"} : raised' = e
    /\ pc' = "exit"
    /\ UNCHANGED <<cli_args, handles, analyzer, outsideHandles>>

\* __exit__, lines 82-87; it returns None, so an exception of the body
\* goes on
ExitCall ==
    /\ pc = "exit"
    /\ handles' = Exit(handles, analyzer)
    /\ pc' = IF raised # "" THEN "raised" ELSE IF analyzer.block = 1 THEN "between" ELSE "done"
    /\ UNCHANGED <<cli_args, analyzer, raised, outsideHandles>>

NextHandles ==
    \/ Construct
    \/ Enter
    \/ Body
    \/ ExitCall

SpecHandles == InitHandles /\ [][NextHandles]_vars

\* control is in neither `with` block
OutsideWith == pc \in {"compare_command", "between", "done", "raised"}

\* C26: every handle that was opened is closed by the time control leaves
\* the `with` block, whether the body completes, the body raises, or the
\* control file fails to open after the treated file was opened; no handle
\* is closed twice.
C26_HandlesClosedOnLeavingWith ==
    /\ OutsideWith => \A f \in Handles : handles[f].state # "open"
    /\ \A f \in Handles : handles[f].closes <= 1

\* where __enter__ has returned, leaving the block closes what was opened,
\* once
C26_ClosedWhenEntered ==
    /\ (OutsideWith /\ ~(pc = "raised" /\ analyzer.control_bam = None /\ ControlGiven(cli_args, analyzer.block)))
           => \A f \in Handles : handles[f].state # "open"
    /\ \A f \in Handles : handles[f].closes <= 1

----------------------------------------------------------------------------
(* calculate_overlap_percentage.py: the two annotation loaders            *)

\* the data lines of a GTF file that have at least 9 fields: chromosome,
\* feature, 1-based start, end, and the gene_name and gene_id attributes
\* (None for an attribute the line does not have)
GtfLine(chrom, feature, start, end, gene_name, gene_id) ==
    [chrom |-> chrom, feature |-> feature, start |-> start, end |-> end,
     gene_name |-> gene_name, gene_id |-> gene_id]

GtfLines ==
    {GtfLine("chr1", "exon", 301, 400, "geneA", "geneC"),
     GtfLine("chr1", "exon", 101, 400, None, "geneB"),
     GtfLine("chr1", "exon", 101, 200, "geneA", None),
     GtfLine("chr1", "exon", 101, 200, None, None),
     GtfLine("chr1", "gene", 101, 400, "geneA", "geneC"),
     GtfLine("chr2", "exon", 101, 200, "geneA", "geneC")}

GtfFiles == UNION {[1 .. n -> GtfLines] : n \in 0 .. MaxAnn}

\* the data lines of a BED file that have at least 4 fields
LoaderBedLines ==
    {<<"chr1", 300, 400, "geneA">>,
     <<"chr1", 100, 400, "geneB">>,
     <<"chr1", 100, 200, "geneA">>,
     <<"chr1", 100, 200, "geneC">>,
     <<"chr2", 100, 200, "geneA">>}

LoaderBedFiles == UNION {[1 .. n -> LoaderBedLines] : n \in 0 .. MaxAnn}

\* lines 49-57: the gene_name attribute, else the gene_id attribute, else None
GeneName(line) == IF line.gene_name # None THEN line.gene_name ELSE line.gene_id

\* the tuple with the 1-based start kept
GtfTupleOneBased(line) == <<line.start, line.end, GeneName(line)>>

\* lines 43-44 and 59: (int(fields[3]) - 1, int(fields[4]), gene_name)
GtfTuple(line) == <<line.start - 1, line.end, GeneName(line)>>

\* lines 33-59: the lines of the feature type are appended to their
\* chromosome's list
RECURSIVE AppendFeatures(_, _, _)
AppendFeatures(d, lines, feature_type) ==
    IF lines = <<>> THEN d
    ELSE LET line == Head(lines)
             next == IF line.feature = feature_type
                     THEN LET dd == DefaultDictGet(d, line.chrom)
                          IN  [dd EXCEPT ![line.chrom] = Append(@, GtfTuple(line))]
                     ELSE d
         IN  AppendFeatures(next, Tail(lines), feature_type)

\* a sort of the list has to compare two tuples of equal start and end of
\* which one has the name None and the other a string: '<' between None
\* and str raises TypeError
Incomparable(s) ==
    \E i, j \in 1 .. Len(s) :
        /\ s[i][1] = s[j][1]
        /\ s[i][2] = s[j][2]
        /\ s[i][3] = None
        /\ s[j][3] # None

\* Python's tuple order with None names: tuples with the name None are
\* compared with each other only, where they are equal
TupleLessOrNone(a, b) ==
    \/ a[1] < b[1]
    \/ a[1] = b[1] /\ a[2] < b[2]
    \/ a[1] = b[1] /\ a[2] = b[2] /\ a[3] # None /\ b[3] # None /\ NameRank(a[3]) < NameRank(b[3])

RECURSIVE InsertSortedOrNone(_, _)
InsertSortedOrNone(x, s) ==
    IF s = <<>> THEN <<x>>
    ELSE IF TupleLessOrNone(x, Head(s)) THEN <<x>> \o s
    ELSE <<Head(s)>> \o InsertSortedOrNone(x, Tail(s))

\* the lists left in file order
SortListsSkipped(d) == d

\* lines 61-63 and 100-101: for chrom in annotations: annotations[chrom].sort()
RECURSIVE SortOfList(_)
SortOfList(s) ==
    IF s = <<>> THEN <<>> ELSE InsertSortedOrNone(s[Len(s)], SortOfList(SubSeq(s, 1, Len(s) - 1)))

SortLists(d) == [c \in DOMAIN d |-> SortOfList(d[c])]

\* load_annotations_from_gtf(gtf_file, feature_type), lines 18-66: what it
\* returns, or the TypeError of a sort
LoadAnnotationsFromGtf(lines, feature_type) ==
    LET appended == AppendFeatures(EmptyDict, lines, feature_type)
    IN  IF \E c \in DOMAIN appended : Incomparable(appended[c])
        THEN [raised |-> "TypeError", value |-> EmptyDict]
        ELSE [raised |-> "", value |-> SortLists(appended)]

----------------------------------------------------------------------------
(* SpecLoaders: load a GTF or a BED file, then query the index *)

InitLoaders ==
    /\ pc = "start"
    /\ IdleOverlap
    /\ IdleCount
    /\ IdleStats
    /\ IdleTools
    /\ IdleCoverage
    /\ IdleBatch
    /\ IdleMetrics

outsideLoaders == <<countVars, coverageVars, metricsVars, batchVars, statVars,
                    rankVars, handleVars, sessionVars, helperVars>>

\* annotations = load_annotations_from_gtf(gtf_file)
LoadGtf ==
    /\ pc = "start"
    /\ \E lines \in GtfFiles :
          LET out == LoadAnnotationsFromGtf(lines, "exon")
          IN  /\ file_lines' = [format |-> "gtf", lines |-> lines]
              /\ annotations' = out.value
              /\ loaded' = out.value
              /\ pc' = IF out.raised # "" THEN out.raised ELSE "loaded"
    /\ UNCHANGED <<query, overlap, out_of_order, outsideLoaders>>

\* annotations = load_annotations_from_bed(bed_file)
LoadBed ==
    /\ pc = "start"
    /\ \E lines \in LoaderBedFiles :
          /\ file_lines' = [format |-> "bed", lines |-> lines]
          /\ annotations' = LoadAnnotationsFromBed(lines)
          /\ loaded' = LoadAnnotationsFromBed(lines)
    /\ pc' = "loaded"
    /\ UNCHANGED <<query, overlap, out_of_order, outsideLoaders>>

\* the reads whose overlap is asked for
LoaderQueries == {<<150, 160>>, <<250, 260>>}

NextLoaders ==
    \/ LoadGtf
    \/ LoadBed
    \/ \E chrom \in Chroms, q \in LoaderQueries : Query(chrom, q[1], q[2])

SpecLoaders == InitLoaders /\ [][NextLoaders]_vars

\* the tuples the file holds for a chromosome, in file order: every line of
\* a BED file, the exon lines of a GTF file with the start made 0-based
RECURSIVE TuplesRead(_, _)
TuplesRead(file, chrom) ==
    IF file.lines = <<>> THEN <<>>
    ELSE LET line == Head(file.lines)
             rest == TuplesRead([file EXCEPT !.lines = Tail(file.lines)], chrom)
         IN  IF file.format = "bed"
             THEN (IF line[1] = chrom THEN <<<<line[2], line[3], line[4]>>>> \o rest ELSE rest)
             ELSE (IF line.chrom = chrom /\ line.feature = "exon"
                   THEN <<<<line.start - 1, line.end,
                            IF line.gene_name # None THEN line.gene_name ELSE line.gene_id>>>> \o rest
                   ELSE rest)

\* s and t hold the same tuples, each as often
SameTuples(s, t) ==
    /\ Len(s) = Len(t)
    /\ \A x \in {s[i] : i \in 1 .. Len(s)} \cup {t[i] : i \in 1 .. Len(t)} :
           Cardinality({i \in 1 .. Len(s) : s[i] = x}) = Cardinality({i \in 1 .. Len(t) : t[i] = x})

\* ascending by start, equal starts ascending by end
SortedByStartThenEnd(anns) ==
    \A i \in 1 .. Len(anns) - 1 :
        \/ anns[i][1] < anns[i + 1][1]
        \/ anns[i][1] = anns[i + 1][1] /\ anns[i][2] <= anns[i + 1][2]

\* C27: once a loader has returned, every chromosome's list is sorted
\* ascending by start with ties by end, holds exactly the intervals read
\* from the file, none dropped and none duplicated, and no later overlap
\* query modifies it.
C27_LoadedIndex ==
    pc \in {"loaded", "queried"} =>
        /\ \A chrom \in Chroms :
               IF chrom \in DOMAIN annotations
               THEN /\ SortedByStartThenEnd(annotations[chrom])
                    /\ SameTuples(annotations[chrom], TuplesRead(file_lines, chrom))
               ELSE TuplesRead(file_lines, chrom) = <<>>
        /\ annotations = loaded

\* a GTF file whose exon lines are out of order and tie on the start, loaded
\* and then queried
C27_Witness ==
    /\ pc = "queried"
    /\ file_lines.format = "gtf"
    /\ Len(file_lines.lines) = 2
    /\ file_lines.lines[1].start = 101 /\ file_lines.lines[1].end = 400
    /\ file_lines.lines[2].start = 101 /\ file_lines.lines[2].end = 200
    /\ file_lines.lines[1].feature = "exon" /\ file_lines.lines[2].feature = "exon"
    /\ "chr1" \in DOMAIN annotations
    /\ annotations["chr1"] = <<<<100, 200, "geneA">>, <<100, 400, "geneB">>>>
    /\ overlap

----------------------------------------------------------------------------
(* SpecCount: the counters of the read loop *)

\* one read moves each counter by 0 or 1, and overlapping_reads only
\* together with total_reads
CountersStep ==
    /\ total_reads' \in {total_reads, total_reads + 1}
    /\ overlapping_reads' \in {overlapping_reads, overlapping_reads + 1}
    /\ overlapping_reads' > overlapping_reads => total_reads' > total_reads

\* 0 <= overlapping / total * 100 <= 100, the percentage being 0 for no reads
PercentageInRange ==
    LET percentage == IF total_reads > 0 THEN Rat(overlapping_reads * 100, total_reads) ELSE Rat(0, 1)
    IN  /\ FloatLe(Rat(0, 1), percentage)
        /\ FloatLe(percentage, Rat(100, 1))
        /\ pc = "done" => result = <<total_reads, overlapping_reads, percentage>>

\* C29: in the read loop 0 <= overlapping_reads <= total_reads after every
\* read, neither counter decreases, a read raises total_reads by at most 1
\* and overlapping_reads by at most 1 and never without total_reads, and the
\* percentage lies in [0, 100].
C29_CountersBounded ==
    /\ [](0 <= overlapping_reads /\ overlapping_reads <= total_reads)
    /\ [][CountersStep]_vars
    /\ []PercentageInRange

\* two reads counted of which one overlaps, and the call returned 50 percent
C29_Witness ==
    /\ pc = "done"
    /\ total_reads = 2
    /\ overlapping_reads = 1
    /\ result = <<2, 1, Rat(100, 2)>>

----------------------------------------------------------------------------
(* dash_design_helper.py: analyze_grna_performance and generate_report    *)

\* lines 29-37
THRESHOLDS ==
    [depletion_critical |-> Rat(3, 10),
     depletion_warning |-> Rat(3, 5),
     uniformity_critical |-> Rat(3, 10),
     uniformity_warning |-> Rat(1, 2),
     cv_warning |-> Float(1),
     cv_critical |-> Float(2),
     zero_coverage_low |-> Rat(1, 2)]

\* a DesignRecommendation without its two texts
DesignRecommendation(grna_name, severity, category, priority) ==
    [grna_name |-> grna_name, severity |-> severity, category |-> category, priority |-> priority]

\* lines 53-73 with `if` in place of `elif`
DepletionCheckBothBranches(m) ==
    (IF FloatLt(m.depletion_efficiency, THRESHOLDS.depletion_critical)
     THEN <<DesignRecommendation(m.grna_name, "critical", "Depletion Efficiency", 5)>> ELSE <<>>)
    \o (IF FloatLt(m.depletion_efficiency, THRESHOLDS.depletion_warning)
        THEN <<DesignRecommendation(m.grna_name, "warning", "Depletion Efficiency", 3)>> ELSE <<>>)

\* lines 53-73
DepletionCheck(m) ==
    IF FloatLt(m.depletion_efficiency, THRESHOLDS.depletion_critical)
    THEN <<DesignRecommendation(m.grna_name, "critical", "Depletion Efficiency", 5)>>
    ELSE IF FloatLt(m.depletion_efficiency, THRESHOLDS.depletion_warning)
    THEN <<DesignRecommendation(m.grna_name, "warning", "Depletion Efficiency", 3)>>
    ELSE <<>>

\* lines 76-97
UniformityCheck(m) ==
    IF FloatLt(m.coverage_uniformity, THRESHOLDS.uniformity_critical)
    THEN <<DesignRecommendation(m.grna_name, "critical", "Coverage Uniformity", 4)>>
    ELSE IF FloatLt(m.coverage_uniformity, THRESHOLDS.uniformity_warning)
    THEN <<DesignRecommendation(m.grna_name, "warning", "Coverage Uniformity", 3)>>
    ELSE <<>>

\* lines 100-121
VariationCheck(m) ==
    IF FloatLt(THRESHOLDS.cv_critical, m.coefficient_of_variation)
    THEN <<DesignRecommendation(m.grna_name, "critical", "Coverage Variation", 4)>>
    ELSE IF FloatLt(THRESHOLDS.cv_warning, m.coefficient_of_variation)
    THEN <<DesignRecommendation(m.grna_name, "warning", "Coverage Variation", 2)>>
    ELSE <<>>

\* lines 124-136
ZeroCoverageCheck(m) ==
    IF /\ FloatLt(m.zero_coverage_fraction, THRESHOLDS.zero_coverage_low)
       /\ FloatLe(Rat(1, 2), m.depletion_efficiency)
    THEN <<DesignRecommendation(m.grna_name, "info", "Coverage Completeness", 2)>>
    ELSE <<>>

\* lines 139-148
EdgeEffectsCheck(m) ==
    IF FloatLt(Rat(4, 5), m.coefficient_of_variation) /\ FloatLt(m.coverage_uniformity, Rat(3, 5))
    THEN <<DesignRecommendation(m.grna_name, "info", "Edge Effects", 2)>>
    ELSE <<>>

\* lines 151-162
PerformanceCheck(m) ==
    IF FloatLt(Rat(4, 5), m.depletion_efficiency) /\ FloatLt(Rat(7, 10), m.coverage_uniformity)
    THEN <<DesignRecommendation(m.grna_name, "info", "Performance", 0)>>
    ELSE <<>>

\* analyze_grna_performance(metrics), lines 39-164
AnalyzeGrnaPerformance(m) ==
    DepletionCheck(m) \o UniformityCheck(m) \o VariationCheck(m)
        \o ZeroCoverageCheck(m) \o EdgeEffectsCheck(m) \o PerformanceCheck(m)

\* lines 177-181: the recommendations of every metrics record, in list order
RECURSIVE AllRecommendations(_)
AllRecommendations(ml) ==
    IF ml = <<>> THEN <<>> ELSE AnalyzeGrnaPerformance(Head(ml)) \o AllRecommendations(Tail(ml))

\* line 184, list.sort(key=priority, reverse=True): a stable sort, equal
\* priorities keeping their order
RECURSIVE InsertByPriority(_, _)
InsertByPriority(x, s) ==
    IF s = <<>> THEN <<x>>
    ELSE IF x.priority > Head(s).priority THEN <<x>> \o s
    ELSE <<Head(s)>> \o InsertByPriority(x, Tail(s))

RECURSIVE SortByPriority(_)
SortByPriority(s) ==
    IF s = <<>> THEN <<>> ELSE InsertByPriority(s[Len(s)], SortByPriority(SubSeq(s, 1, Len(s) - 1)))

\* lines 194-196: sum(1 for r in all_recommendations if r.severity == severity)
RECURSIVE CountSeverity(_, _)
CountSeverity(recs, severity) ==
    IF recs = <<>> THEN 0
    ELSE (IF Head(recs).severity = severity THEN 1 ELSE 0) + CountSeverity(Tail(recs), severity)

\* generate_report(metrics_list), lines 166-201: the sorted recommendations
\* and the four numbers of the report's summary
GenerateReport(ml) ==
    LET all_recommendations == SortByPriority(AllRecommendations(ml))
    IN  [all_recommendations |-> all_recommendations,
         analyzed |-> Len(ml),
         critical_count |-> CountSeverity(all_recommendations, "critical"),
         warning_count |-> CountSeverity(all_recommendations, "warning"),
         info_count |-> CountSeverity(all_recommendations, "info")]

\* the scalars of the metrics handed to the helper: values on both sides of
\* every threshold, the thresholds themselves and nan
EfficiencyValues == {Rat(1, 5), Rat(3, 10), Rat(1, 2), Rat(3, 5), Rat(4, 5), Rat(9, 10), NaN}

UniformityValues == {Rat(1, 5), Rat(3, 10), Rat(2, 5), Rat(1, 2), Rat(7, 10), Rat(9, 10), NaN}

VariationValues == {Rat(1, 2), Rat(9, 10), Float(1), Rat(3, 2), Float(2), Float(3), NaN}

ZeroFractionValues == {Rat(1, 4), Rat(1, 2)}

HelperMetrics(name, e, u, z, cv) ==
    [grna_name |-> name, depletion_efficiency |-> e, coverage_uniformity |-> u,
     zero_coverage_fraction |-> z, coefficient_of_variation |-> cv]

\* the records handed to generate_report
ReportChoices ==
    {HelperMetrics("gRNA1", Rat(1, 5), Rat(1, 5), Rat(1, 4), Float(3)),
     HelperMetrics("gRNA2", Rat(1, 2), Rat(2, 5), Rat(1, 4), Rat(3, 2)),
     HelperMetrics("gRNA3", Rat(9, 10), Rat(9, 10), Rat(1, 4), Rat(1, 2)),
     HelperMetrics("gRNA4", Rat(9, 10), Rat(2, 5), Rat(1, 2), Float(3))}

ReportLists == UNION {[1 .. n -> ReportChoices] : n \in 0 .. MaxRank}

----------------------------------------------------------------------------
(* SpecHelper: one call of a DASHDesignHelper function *)

InitHelper ==
    /\ pc = "ready"
    /\ IdleOverlap
    /\ IdleCount
    /\ IdleStats
    /\ IdleTools
    /\ IdleCoverage
    /\ IdleBatch
    /\ IdleMetrics

outsideHelper == <<overlapVars, countVars, coverageVars, metricsVars, batchVars, statVars,
                   rankVars, handleVars, sessionVars, loaderVars>>

\* DASHDesignHelper.analyze_grna_performance(m)
CallAnalyzeGrnaPerformance(m) ==
    /\ performance' = m
    /\ recommendations' = AnalyzeGrnaPerformance(m)
    /\ pc' = "recommended"
    /\ UNCHANGED <<report, outsideHelper>>

PerformanceCall ==
    /\ pc = "ready"
    /\ \E e \in EfficiencyValues, u \in UniformityValues, z \in ZeroFractionValues, cv \in VariationValues :
           CallAnalyzeGrnaPerformance(HelperMetrics("gRNA1", e, u, z, cv))

\* DASHDesignHelper.generate_report(ml)
CallGenerateReport(ml) ==
    /\ report' = GenerateReport(ml)
    /\ recommendations' = AllRecommendations(ml)
    /\ pc' = "reported"
    /\ UNCHANGED <<performance, outsideHelper>>

ReportCall ==
    /\ pc = "ready"
    /\ \E ml \in ReportLists : CallGenerateReport(ml)

NextHelper ==
    \/ PerformanceCall
    \/ ReportCall

SpecHelper == InitHelper /\ [][NextHelper]_vars

\* the recommendations of a list that have the category
OfCategory(recs, category) == {i \in 1 .. Len(recs) : recs[i].category = category}

\* C30: analyze_grna_performance gives at most one recommendation in each of
\* the categories Depletion Efficiency, Coverage Uniformity and Coverage
\* Variation (a critical one or a warning, never both), never the priority-0
\* 'Excellent performance' entry together with a Depletion Efficiency or
\* Coverage Uniformity critical or warning, and the critical, warning and
\* info counts of generate_report add up to the number of recommendations.
C30_Recommendations ==
    /\ pc = "recommended" =>
           /\ \A c \in {"Depletion Efficiency", "Coverage Uniformity", "Coverage Variation"} :
                  /\ Cardinality(OfCategory(recommendations, c)) <= 1
                  /\ \A i \in OfCategory(recommendations, c) :
                         recommendations[i].severity \in {"critical", "warning"}
           /\ (\E i \in 1 .. Len(recommendations) : recommendations[i].priority = 0) =>
                  /\ OfCategory(recommendations, "Depletion Efficiency") = {}
                  /\ OfCategory(recommendations, "Coverage Uniformity") = {}
           /\ FloatLt(performance.depletion_efficiency, Rat(3, 10)) =>
                  \E i \in 1 .. Len(recommendations) :
                      /\ recommendations[i].category = "Depletion Efficiency"
                      /\ recommendations[i].severity = "critical"
    /\ pc = "reported" =>
           /\ report.critical_count + report.warning_count + report.info_count
                  = Len(report.all_recommendations)
           /\ Len(report.all_recommendations) = Len(recommendations)

\* a gRNA below the critical depletion threshold gets the critical entry
\* alone in its category
C30_Witness ==
    /\ pc = "recommended"
    /\ performance.depletion_efficiency = Rat(1, 5)
    /\ performance.coverage_uniformity = Rat(2, 5)
    /\ Len(recommendations) >= 2
    /\ recommendations[1].severity = "critical"
    /\ recommendations[1].category = "Depletion Efficiency"
    /\ recommendations[2].severity = "warning"
    /\ recommendations[2].category = "Coverage Uniformity"

----------------------------------------------------------------------------
(* SpecSession: a caller holds one metrics list and hands it to the        *)
(* DASHStatistics functions, in any order (dash_cli.py, lines 72-96 and    *)
(* 118-120)                                                                *)

\* the second group of compare_groups: two records of MetricChoices
SessionGroup2 ==
    <<AsFloats(DepletionMetricsOf(GRNATarget("gRNA1", "chr1", 0, 2), <<0, 0>>, NoneArray)),
      AsFloats(DepletionMetricsOf(GRNATarget("gRNA3", "chr1", 4, 6), <<1, 2>>, Given(<<2, 2>>)))>>

InitSession ==
    /\ pc = "session"
    /\ metrics_list \in MetricLists
    /\ original = metrics_list
    /\ calls = <<>>
    /\ sample1 = <<>>
    /\ sample2 = <<>>
    /\ cohens_d = None
    /\ group1 = <<>>
    /\ group2 = <<>>
    /\ alpha = None
    /\ comparison = <<>>
    /\ stat_result = None
    /\ IdleRank
    /\ IdleHandles
    /\ IdleHelper
    /\ IdleLoader
    /\ IdleOverlap
    /\ IdleCount
    /\ IdleCoverage
    /\ IdleBatch
    /\ IdleMetrics

outsideSession == <<overlapVars, countVars, coverageVars, metricsVars, batchVars,
                    sample1, sample2, cohens_d, reordered, reranking, original,
                    handleVars, helperVars, loaderVars>>

\* the caller may make another call
MayCall == pc = "session" /\ Len(calls) < MaxCalls

\* stats.compare_groups(metrics_list, group2, alpha=0.05)
SessionCompare ==
    /\ MayCall
    /\ group1' = metrics_list
    /\ group2' = SessionGroup2
    /\ alpha' = Rat(1, 20)
    /\ comparison' = CompareGroups(metrics_list, SessionGroup2, Rat(1, 20))
    /\ calls' = Append(calls, "compare_groups")
    /\ UNCHANGED <<pc, metrics_list, stat_result, weights, ranking, n_std, outliers, outsideSession>>

\* a rank_grnas that sorts the caller's list in place
SessionRankInPlace ==
    /\ MayCall
    /\ \E out \in RankGrnas(metrics_list, NoWeights) :
          /\ ranking' = out
          /\ pc' = IF out.raised # "" THEN out.raised ELSE pc
          /\ metrics_list' = IF out.raised # "" THEN metrics_list ELSE InOrderOf(metrics_list, out.value)
    /\ weights' = NoWeights
    /\ calls' = Append(calls, "rank_grnas")
    /\ UNCHANGED <<group1, group2, alpha, comparison, stat_result, n_std, outliers, outsideSession>>

\* stats.rank_grnas(metrics_list)
SessionRank ==
    /\ MayCall
    /\ \E out \in RankGrnas(metrics_list, NoWeights) :
          /\ ranking' = out
          /\ pc' = IF out.raised # "" THEN out.raised ELSE pc
    /\ weights' = NoWeights
    /\ calls' = Append(calls, "rank_grnas")
    /\ UNCHANGED <<metrics_list, group1, group2, alpha, comparison, stat_result, n_std, outliers,
                   outsideSession>>

\* stats.identify_outliers(metrics_list, n_std)
SessionOutliers ==
    /\ MayCall
    /\ \E n \in {Rat(1, 2), Float(2)} :
          /\ n_std' = n
          /\ outliers' = IdentifyOutliers(metrics_list, n)
    /\ calls' = Append(calls, "identify_outliers")
    /\ UNCHANGED <<pc, metrics_list, group1, group2, alpha, comparison, stat_result, weights, ranking,
                   outsideSession>>

\* stats.correlation_analysis(metrics_list)
SessionCorrelation ==
    /\ MayCall
    /\ \E out \in CorrelationAnalysis(metrics_list) : stat_result' = out
    /\ calls' = Append(calls, "correlation_analysis")
    /\ UNCHANGED <<pc, metrics_list, group1, group2, alpha, comparison, weights, ranking, n_std, outliers,
                   outsideSession>>

\* stats.generate_summary_statistics(metrics_list)
SessionSummary ==
    /\ MayCall
    /\ stat_result' = GenerateSummaryStatistics(metrics_list)
    /\ pc' = IF GenerateSummaryStatistics(metrics_list).raised # ""
             THEN GenerateSummaryStatistics(metrics_list).raised ELSE pc
    /\ calls' = Append(calls, "generate_summary_statistics")
    /\ UNCHANGED <<metrics_list, group1, group2, alpha, comparison, weights, ranking, n_std, outliers,
                   outsideSession>>

NextSession ==
    \/ SessionCompare
    \/ SessionRank
    \/ SessionOutliers
    \/ SessionCorrelation
    \/ SessionSummary

SpecSession == InitSession /\ [][NextSession]_vars

\* the call made last
LastCall == IF calls = <<>> THEN None ELSE calls[Len(calls)]

\* C28: compare_groups, rank_grnas, identify_outliers, correlation_analysis
\* and generate_summary_statistics leave the list they are handed and every
\* field of its DepletionMetrics as they were, so after any sequence of
\* calls the next call's result is the one it gives on the list as first
\* held.
C28_InputsUnchanged ==
    /\ metrics_list = original
    /\ LastCall = "compare_groups" =>
           /\ group1 = original
           /\ comparison = CompareGroups(original, SessionGroup2, Rat(1, 20))
    /\ LastCall = "rank_grnas" => ranking \in RankGrnas(original, NoWeights)
    /\ LastCall = "identify_outliers" => outliers = IdentifyOutliers(original, n_std)
    /\ LastCall = "correlation_analysis" => stat_result \in CorrelationAnalysis(original)
    /\ LastCall = "generate_summary_statistics" => stat_result = GenerateSummaryStatistics(original)

\* a list of two targets ranked into the other order, then searched for
\* outliers
C28_Witness ==
    /\ pc = "session"
    /\ calls = <<"rank_grnas", "identify_outliers">>
    /\ Len(original) = 2
    /\ original[1].grna_name = "gRNA3"
    /\ original[2].grna_name = "gRNA1"
    /\ ranking.value[1].gRNA_name = "gRNA1"
    /\ n_std = Rat(1, 2)
    /\ outliers.low_performers = <<"gRNA3", "gRNA1">>

====
